---- MODULE Spec2Model ----
(***************************************************************************)
(* Extraction controller of the market helper (main.js): the search table, *)
(* the hidden page surfaces, the start/stop/retry IPC handlers and the     *)
(* runSearch task with its setup sequence and its poll/scroll/parse loop.  *)
(*                                                                         *)
(* One action is one turn of the JavaScript event loop: the code that runs *)
(* from the settling of an awaited promise to the next await.  Strings are *)
(* sequences of one-character strings, so that trimming, lower-casing,     *)
(* substring search and key concatenation are computed, not assumed.       *)
(***************************************************************************)
EXTENDS Integers, Sequences, FiniteSets, TLC

VARIABLES
    searches,       \* main.js:7    search id -> entry {window, filters, running, data}
    searchCounter,  \* main.js:6    next search id
    windows,        \* the hidden BrowserWindows created so far, by creation order
    loads,          \* loadURL promises not yet settled (start-search and retry-search)
    tasks,          \* the activations of runSearch, by creation order
    emitted,        \* what the last turn sent to the hub renderer, in order
    scope,          \* the environment: the site the market URL shows, the filters the operator
                    \* submits, the windows the session may create, the delays of the page
    startsLeft,     \* start-search commands the operator will still issue
    stopped,        \* history: the searches stopped with no retry-search invoked since
    helper          \* helper.js:6  the globals of the helper page (the facet engine)

\* the variables of the main process
mainVars == <<searches, searchCounter, windows, loads, tasks, emitted, scope, startsLeft, stopped>>

vars == <<searches, searchCounter, windows, loads, tasks, emitted, scope, startsLeft, stopped,
          helper>>

----------------------------------------------------------------------------
\* Bounds of the model.

\* BrowserWindows ever created (one per start-search and per retry-search)
MaxWindows == 2

----------------------------------------------------------------------------
\* Program constants.

\* a loop bound one pass too long
maxIterationsMore == 60 + 1
\* main.js:507
maxIterations == 60

\* a stability threshold one comparison too short
stableNeededLess == 3 - 1
\* main.js:548: stable >= 3
stableNeeded == 3

\* a zero-result timeout one inter-poll delay too long
zeroTimeoutLate == 30000 + 700
\* main.js:555: (Date.now() - zeroStart) > 30000
zeroTimeout == 30000

\* main.js:577
interPollDelay == 700

----------------------------------------------------------------------------
\* Strings.

Min(a, b) == IF a < b THEN a ELSE b

UpperToLower ==
    [c \in {"A", "B", "C", "D", "H", "O", "P", "T", "X"} |->
        CASE c = "A" -> "a" [] c = "B" -> "b" [] c = "C" -> "c"
          [] c = "D" -> "d" [] c = "H" -> "h" [] c = "O" -> "o"
          [] c = "P" -> "p" [] c = "T" -> "t" [] c = "X" -> "x"]

\* String.prototype.toLowerCase
toLowerCase(s) ==
    [k \in 1..Len(s) |-> IF s[k] \in DOMAIN UpperToLower THEN UpperToLower[s[k]] ELSE s[k]]

RECURSIVE trimStart(_)
trimStart(s) == IF s # <<>> /\ Head(s) = " " THEN trimStart(Tail(s)) ELSE s

RECURSIVE trimEnd(_)
trimEnd(s) ==
    IF s # <<>> /\ s[Len(s)] = " " THEN trimEnd(SubSeq(s, 1, Len(s) - 1)) ELSE s

\* String.prototype.trim
trim(s) == trimEnd(trimStart(s))

\* String.prototype.includes
includes(s, sub) ==
    \E k \in 0..(Len(s) - Len(sub)) : SubSeq(s, k + 1, k + Len(sub)) = sub

----------------------------------------------------------------------------
\* Strings and numbers of the helper page (helper.js).  A number is held in
\* hundredths (10.01 is 1001); the listings and the inputs below carry at most
\* two decimals, so the arithmetic of the page is exact in this unit.

Scale == 100

\* JavaScript null, NaN and undefined where the page tests for them: a value
\* below every number a listing or an input can produce
null == 0 - 1000000000

\* In applied to a value: the value is worked out once, then named
With(value, In(_)) == CHOOSE result \in {In(v) : v \in {value}} : TRUE

Digits == <<"0", "1", "2", "3", "4", "5", "6", "7", "8", "9">>

isDigit(c) == \E d \in 1..10 : Digits[d] = c

digitValue(c) == (CHOOSE d \in 1..10 : Digits[d] = c) - 1

\* String.prototype.startsWith
startsWith(s, prefix) == Len(s) >= Len(prefix) /\ SubSeq(s, 1, Len(prefix)) = prefix

\* String.prototype.slice(n)
slice(s, n) == SubSeq(s, n + 1, Len(s))

\* s.split(c)[0]: what precedes the first c
RECURSIVE splitFirst(_, _)
splitFirst(s, c) ==
    IF s = <<>> \/ Head(s) = c THEN <<>> ELSE <<Head(s)>> \o splitFirst(Tail(s), c)

\* s.split(/\s+/) of a trimmed, non-empty string
RECURSIVE splitSpaces(_)
splitSpaces(s) ==
    LET word == splitFirst(s, " ")
        rest == trimStart(slice(s, Len(word)))
    IN IF rest = <<>> THEN <<word>> ELSE <<word>> \o splitSpaces(rest)

\* parts.join(' ')
RECURSIVE join(_)
join(parts) ==
    IF parts = <<>> THEN <<>>
    ELSE IF Len(parts) = 1 THEN parts[1]
    ELSE parts[1] \o <<" ">> \o join(Tail(parts))

\* parts.pop() leaves the parts before the last
popped(parts) == SubSeq(parts, 1, Len(parts) - 1)

\* s.replace(/[^0-9]/g, '')
digitsOnly(s) == SelectSeq(s, isDigit)

\* s.replace(/[^0-9.]/g, '')
digitsAndDots(s) == SelectSeq(s, LAMBDA c : isDigit(c) \/ c = ".")

\* the length of the run of digits of s that starts at position i
RECURSIVE digitRun(_, _)
digitRun(s, i) == IF i <= Len(s) /\ isDigit(s[i]) THEN 1 + digitRun(s, i + 1) ELSE 0

\* the value of a string of digits
RECURSIVE decimal(_)
decimal(ds) ==
    IF ds = <<>> THEN 0
    ELSE 10 * decimal(SubSeq(ds, 1, Len(ds) - 1)) + digitValue(ds[Len(ds)])

\* parseInt(s, 10) of a string of digits; NaN when there is none
parseInt(ds) == IF ds = <<>> THEN null ELSE decimal(ds)

\* [0-9]+(?:\.[0-9]+)? read at position i, where a digit stands: the value
\* parseFloat gives it and the position of its last character
numberAt(s, i) ==
    LET n == digitRun(s, i)
        dot == i + n
        m == IF dot < Len(s) /\ s[dot] = "." THEN digitRun(s, dot + 1) ELSE 0
        fraction == SubSeq(SubSeq(s, dot + 1, dot + m) \o <<"0", "0">>, 1, 2)
    IN [value |-> Scale * decimal(SubSeq(s, i, i + n - 1)) + decimal(fraction),
        end |-> IF m > 0 THEN dot + m ELSE dot - 1]

\* s.match(/-?[0-9]+(?:\.[0-9]+)?/g) (signed) or s.match(/[0-9]+(?:\.[0-9]+)?/g),
\* from position i on, each match through parseFloat
RECURSIVE numbersFrom(_, _, _)
numbersFrom(s, i, signed) ==
    IF i > Len(s) THEN <<>>
    ELSE IF signed /\ s[i] = "-" /\ i < Len(s) /\ isDigit(s[i + 1])
    THEN LET r == numberAt(s, i + 1)
         IN <<0 - r.value>> \o numbersFrom(s, r.end + 1, signed)
    ELSE IF isDigit(s[i])
    THEN LET r == numberAt(s, i) IN <<r.value>> \o numbersFrom(s, r.end + 1, signed)
    ELSE numbersFrom(s, i + 1, signed)

\* the first match through parseFloat, null when nothing matches
firstNumber(s, signed) ==
    LET found == numbersFrom(s, 1, signed) IN IF found = <<>> THEN null ELSE found[1]

RECURSIVE sum(_)
sum(ns) == IF ns = <<>> THEN 0 ELSE Head(ns) + sum(Tail(ns))

\* parseFloat of a string of digits and dots; NaN when no digit leads it
parseFloat(s) ==
    IF s # <<>> /\ isDigit(s[1]) THEN numberAt(s, 1).value
    ELSE IF Len(s) >= 2 /\ s[1] = "." /\ isDigit(s[2])
    THEN decimal(SubSeq(SubSeq(s, 2, 1 + digitRun(s, 2)) \o <<"0", "0">>, 1, 2))
    ELSE null

----------------------------------------------------------------------------
\* The records the helper page is fed, as the parse script builds them.

\* What the parse script reads of one listing of the market page: the type
\* indicator, the texts of its fields and its options (name and value texts).
Item(type, name, rank, price, reroll, seller, status, date, options) ==
    [type |-> type, name |-> name, requiredRank |-> rank, price |-> price,
     rerollCount |-> reroll, sellerName |-> seller, sellerStatus |-> status,
     regDate |-> date, options |-> options]

Items ==
    << Item(<<"A", "n", "c", "e", "s", "t", "o", "r", "s">>, <<"A", "b">>, <<"1", "2">>,
         <<"1", "0">>, <<"3">>, <<"s", "1">>, <<"O", "n">>,
         <<"2", " ", "d", "a", "y", "s", " ", "a", "g", "o">>,
         <<[name |-> <<"(", "+", ")", " ", "P", "o", "w", " ", "[", "5", "~", "1", "5", "]", "%">>, value |-> <<"1", "0", "%">>],
              [name |-> <<"(", "-", ")", " ", "C", "o", "s", "t", " ", "[", "1", "~", "3", "]">>, value |-> <<"2">>]>>),
       Item(<<"A", "n", "c", "e", "s", "t", "o", "r", "s">>, <<"C", "d">>, <<>>,
         <<"2", "0">>, <<"-">>, <<"s", "2">>, <<"O", "f", "f">>,
         <<"1", "2", " ", "h", "o", "u", "r", "s", " ", "a", "g", "o">>,
         <<[name |-> <<"(", "+", ")", " ", "P", "o", "w", " ", "[", "?", "]">>, value |-> <<>>],
              [name |-> <<"(", "-", ")", " ", "C", "o", "s", "t", " ", "[", "1", "~", "3", "]">>, value |-> <<>>]>>),
       Item(<<"A", "n", "c", "e", "s", "t", "o", "r", "s">>, <<>>, <<"3">>,
         <<"5">>, <<>>, <<"s", "1">>, <<"O", "n">>,
         <<>>,
         <<[name |-> <<"(", "+", ")", " ", "P", "o", "w", " ", "[", "5", "~", "9", "]">>, value |-> <<>>]>>),
       Item(<<"A", "n", "c", "e", "s", "t", "o", "r", "s">>, <<"A", "b">>, <<"1">>,
         <<"1", "0">>, <<"0">>, <<"s", "1">>, <<"O", "f", "f">>,
         <<"3", " ", "d", "a", "y", "s", " ", "a", "g", "o">>,
         <<[name |-> <<"(", "+", ")", " ", "D", "m", "g", " ", "[", "1", "~", "3", "]">>, value |-> <<>>]>>),
       Item(<<"T", "r", "i", "g", "g", "e", "r">>, <<"T", "x">>, <<"5">>,
         <<"3", "0">>, <<"1">>, <<"s", "2">>, <<"O", "n">>,
         <<"1", " ", "d", "a", "y", "s", " ", "a", "g", "o">>,
         <<[name |-> <<"R", "a", "t", "e">>, value |-> <<"1", "0", ".", "5", "%">>]>>),
       Item(<<"T", "r", "i", "g", "g", "e", "r">>, <<"T", "y">>, <<>>,
         <<"4", "0">>, <<"2">>, <<"s", "1">>, <<"O", "f", "f">>,
         <<"6", " ", "h", "o", "u", "r", "s", " ", "a", "g", "o">>,
         <<[name |-> <<"R", "a", "t", "e">>, value |-> <<"2", "0">>],
              [name |-> <<"P", "o", "w", " ", "(", "x", ")">>, value |-> <<"3">>]>>) >>

\* attributes.includes(attr) || attributes.push(attr), over the names read
RECURSIVE unique(_)
unique(names) ==
    IF names = <<>> THEN <<>>
    ELSE LET before == unique(popped(names))
             last == names[Len(names)]
         IN IF last = <<>> \/ (\E k \in 1..Len(before) : before[k] = last)
            THEN before ELSE Append(before, last)

\* what parseAncestor and parseTrigger return alike
Parsed(item, category, stats, attrs) ==
    [name |-> item.name, category |-> category, socketType |-> <<>>,
     requiredRank |-> item.requiredRank, price |-> item.price, platform |-> <<"P", "C">>,
     rerollCount |-> item.rerollCount, sellerName |-> item.sellerName,
     sellerStatus |-> item.sellerStatus, regDate |-> item.regDate,
     attributes |-> unique(attrs), stats |-> stats]

\* main.js:358-426
parseAncestor(item) ==
    LET Signed(raw) == startsWith(raw, <<"(", "+", ")">>) \/ startsWith(raw, <<"(", "-", ")">>)
        attr(raw) == trim(splitFirst(IF Signed(raw) THEN trim(slice(raw, 3)) ELSE raw, "["))
        options == item.options
    IN Parsed(item, <<"A", "n", "c", "e", "s", "t", "o", "r", "s">>,
              [k \in 1..Len(options) |->
                  [raw |-> options[k].name,
                   positive |-> startsWith(options[k].name, <<"(", "+", ")">>),
                   negative |-> startsWith(options[k].name, <<"(", "-", ")">>),
                   value |-> options[k].value]],
              [k \in 1..Len(options) |-> attr(options[k].name)])

\* main.js:427-485
parseTrigger(item) ==
    LET options == item.options
    IN Parsed(item, <<"T", "r", "i", "g", "g", "e", "r">>,
              [k \in 1..Len(options) |->
                  [raw |-> options[k].name \o <<" ">> \o options[k].value,
                   positive |-> FALSE, negative |-> FALSE, value |-> options[k].value]],
              [k \in 1..Len(options) |-> trim(splitFirst(options[k].name, "("))])

\* main.js:492-496: the parser the type indicator of a listing selects
parseItem(item) ==
    IF includes(toLowerCase(item.type), <<"t", "r", "i", "g", "g", "e", "r">>)
    THEN parseTrigger(item) ELSE parseAncestor(item)

\* the records of the listings
Offers == [k \in 1..Len(Items) |-> parseItem(Items[k])]

----------------------------------------------------------------------------
\* The fields the helper page derives for a record.

\* helper.js:754-759
mrValOf(mod) ==
    IF mod.requiredRank # <<>> THEN parseInt(digitsOnly(mod.requiredRank)) ELSE null

\* helper.js:762-772
rerollValOf(mod) ==
    IF mod.rerollCount # <<>>
    THEN LET cleaned == trim(mod.rerollCount)
         IN IF cleaned = <<"-">> \/ cleaned = <<>> THEN 0 ELSE parseInt(digitsOnly(cleaned))
    ELSE null

\* the first match of /(\d+(?:\.\d+)?)\s*(day|days|hour|hours)/ in s from position i on
RECURSIVE ageMatch(_, _)
ageMatch(s, i) ==
    IF i > Len(s) THEN [val |-> null, unit |-> "none"]
    ELSE IF isDigit(s[i])
    THEN LET r == numberAt(s, i)
             rest == trimStart(slice(s, r.end))
         IN IF startsWith(rest, <<"d", "a", "y">>) THEN [val |-> r.value, unit |-> "day"]
            ELSE IF startsWith(rest, <<"h", "o", "u", "r">>) THEN [val |-> r.value, unit |-> "hour"]
            ELSE ageMatch(s, i + 1)
    ELSE ageMatch(s, i + 1)

\* helper.js:726: val / 24
HoursPerDay == 24

\* helper.js:713-728.  An age in days is held in 24ths of a hundredth of a day
\* (one day is HoursPerDay * Scale), so that the division of an hour count by
\* 24 is exact.
parseAgeToDays(str) ==
    LET m == ageMatch(toLowerCase(str), 1)
    IN IF str = <<>> \/ m.val = null THEN null
       ELSE IF m.unit = "day" THEN m.val * HoursPerDay
       ELSE (m.val * HoursPerDay) \div 24

\* a conversion to hours that gives a day count no hours
parseAgeToHoursOfHours(str) ==
    LET m == ageMatch(toLowerCase(str), 1)
    IN IF str = <<>> \/ m.val = null THEN null
       ELSE IF m.unit = "hour" THEN m.val ELSE 0

\* helper.js:735-751
parseAgeToHours(str) ==
    LET m == ageMatch(toLowerCase(str), 1)
    IN IF str = <<>> \/ m.val = null THEN null
       ELSE IF m.unit = "hour" THEN m.val ELSE m.val * 24

\* the label of a stat: the tokens of its trimmed raw text but the last, joined
statLabel(raw) == join(popped(splitSpaces(raw)))

\* the last token of the trimmed raw text of a stat
lastToken(raw) == LET parts == splitSpaces(raw) IN parts[Len(parts)]

signed(label) == startsWith(label, <<"(", "+", ")">>) \/ startsWith(label, <<"(", "-", ")">>)

\* helper.js:97-109: the names initializeUI lists a record's negative stats under
initNegAttributes(stats) ==
    LET attrName(stat) ==
            IF stat.negative /\ trim(stat.raw) # <<>>
            THEN trim(splitFirst(statLabel(trim(stat.raw)), "["))
            ELSE <<>>
    IN SelectSeq([k \in 1..Len(stats) |-> attrName(stats[k])], LAMBDA n : n # <<>>)

\* helper.js:1459-1477: the names appendModules lists them under
appendNegAttributes(stats) ==
    LET attrName(stat) ==
            IF stat.negative /\ trim(stat.raw) # <<>>
            THEN LET name == trim(splitFirst(statLabel(trim(stat.raw)), "["))
                 IN IF signed(name) THEN trim(slice(name, 3)) ELSE name
            ELSE <<>>
    IN unique([k \in 1..Len(stats) |-> attrName(stats[k])])

\* helper.js:134-139 (initializeUI) and 1484-1489 (appendModules, which trims
\* the label once more after cutting the sign)
attrNameOf(label, trimmed) ==
    LET cut == IF signed(label) THEN slice(label, 3) ELSE label
        cleanLabel == IF trimmed /\ signed(label) THEN trim(cut) ELSE cut
    IN trim(splitFirst(cleanLabel, "["))

\* helper.js:141-163 and 1490-1511: the value of a stat, or the average of the
\* numbers of its range token
statAverage(stat, token) ==
    LET valStr == trim(stat.value)
        actual == IF valStr # <<>> THEN firstNumber(valStr, TRUE) ELSE null
        found == numbersFrom(token, 1, TRUE)
    IN IF actual # null THEN actual
       ELSE IF found # <<>> THEN sum(found) \div Len(found)
       ELSE null

\* object[key] = value
put(object, key, value) ==
    [k \in DOMAIN object \cup {key} |-> IF k = key THEN value ELSE object[k]]

\* object[key], null when the key is absent
get(object, key) == IF key \in DOMAIN object THEN object[key] ELSE null

\* helper.js:165-173, 923-930, 1513-1521 and 1572-1580: a {min, max} map takes a value in
widen(ranges, attrName, avg) ==
    IF attrName \notin DOMAIN ranges THEN put(ranges, attrName, [min |-> avg, max |-> avg])
    ELSE IF avg # null
    THEN put(ranges, attrName,
             [min |-> IF ranges[attrName].min = null \/ avg < ranges[attrName].min
                      THEN avg ELSE ranges[attrName].min,
              max |-> IF ranges[attrName].max = null \/ avg > ranges[attrName].max
                      THEN avg ELSE ranges[attrName].max])
    ELSE ranges

\* helper.js:122-174 and 1479-1522: the loop over the stats of one record, which
\* fills its attrValues and widens the attrRangeMap
RECURSIVE measureStats(_, _, _, _)
measureStats(stats, attrValues, ranges, trimmed) ==
    IF stats = <<>> THEN [attrValues |-> attrValues, attrRangeMap |-> ranges]
    ELSE With(trim(Head(stats).raw), LAMBDA raw :
         With(IF raw = <<>> THEN <<>> ELSE attrNameOf(statLabel(raw), trimmed), LAMBDA attrName :
         IF attrName = <<>>
         THEN measureStats(Tail(stats), attrValues, ranges, trimmed)
         ELSE With(statAverage(Head(stats), lastToken(raw)), LAMBDA avg :
              With(<<put(attrValues, attrName, avg), widen(ranges, attrName, avg)>>,
                   LAMBDA next : measureStats(Tail(stats), next[1], next[2], trimmed)))))

\* helper.js:912-931 and 1560-1585: the loop over the stats of one record, which
\* fills its triggerValues and widens the triggerAttrMap
RECURSIVE measureTrigger(_, _, _)
measureTrigger(stats, triggerValues, ranges) ==
    IF stats = <<>> THEN [triggerValues |-> triggerValues, triggerAttrMap |-> ranges]
    ELSE With(trim(Head(stats).raw), LAMBDA raw :
         IF raw = <<>>
         THEN measureTrigger(Tail(stats), triggerValues, ranges)
         ELSE With(<<trim(splitFirst(statLabel(raw), "(")), firstNumber(lastToken(raw), FALSE)>>,
                   LAMBDA found :
              With(<<put(triggerValues, found[1], found[2]), widen(ranges, found[1], found[2])>>,
                   LAMBDA next : measureTrigger(Tail(stats), next[1], next[2]))))

----------------------------------------------------------------------------
\* The helper page (helper.js): its globals, initializeUI, appendModules and
\* updateResults.  The elements the script looks up in market_helper.html are
\* taken to be there.

\* helper.js:13-55 and the controls of the page: the facet state of a freshly
\* loaded page
NoFacets ==
    [activeCats |-> <<>>, selectedAttrs |-> <<>>, selectedAttrRanges |-> <<>>,
     selectedSockets |-> <<>>, selectedPlatforms |-> <<>>,
     priceMinVal |-> null, priceMaxVal |-> null,
     mrMinVal |-> null, mrMaxVal |-> null, rerollMinVal |-> null, rerollMaxVal |-> null,
     selectedStatuses |-> <<>>, ageMinVal |-> null, ageMaxVal |-> null,
     ageHoursMinVal |-> null, ageHoursMaxVal |-> null, sellerFilterVal |-> <<>>,
     triggerFilterValues |-> <<>>, selectedNegAttrs |-> <<>>, selectedModuleNames |-> <<>>,
     sortVal |-> "default"]

\* helper.js:1616-1650: localStorage, one collection of profiles and one default
\* name for each mode; no default name is the empty string
NoStorage ==
    [ancestor |-> [profiles |-> <<>>, default |-> <<>>],
     trigger |-> [profiles |-> <<>>, default |-> <<>>]]

\* helper.js:1613-1614: currentProfileName and currentProfileState, both null
NoState == [none |-> TRUE]
NoProfile == [currentProfileName |-> <<>>, currentProfileState |-> NoState]

\* what a use of a profile control did, and the profile name it was about
Did(op, name) == [op |-> op, name |-> name]

\* the profile select of the page: its value and the names of its options
NoSelect == [value |-> <<>>, options |-> {}]

\* helper.js:7-55: the page once its script has run, for a tab of the given
\* module type (window.__moduleType).  attributes and statuses are the lists the
\* last initializeUI built its suggestions and check boxes from, checkedStatuses
\* the boxes that are checked, triggerInputs the attributes the trigger filters
\* have inputs for.  storage is localStorage, pm the profile manager, select
\* the profile select, saveDisabled the disabled flag of the save button, wired
\* whether initUI has attached its listeners, hooked whether
\* window.__updateResults is the wrapper of initUI, hookPending whether the
\* interval that waits to wrap it runs.  History: fed is the record list a page
\* initialized once would hold (the data of the last initializeUI, then the
\* records appended since that were not yet present); feeds, edits and clicks
\* count the data sets fed, the inputs of the operator and the uses of the
\* profile controls; done is what the last use of a profile control did
\* ("rejected" and "defaulted" are the two alerts).
Loaded(moduleType) ==
    [moduleType |-> moduleType, initialized |-> FALSE, modules |-> <<>>,
     isTriggerMode |-> FALSE, triggerAttrMap |-> <<>>, attrRangeMap |-> <<>>,
     attributes |-> {}, negAttributes |-> {}, moduleNames |-> {}, statuses |-> {},
     checkedStatuses |-> {}, triggerInputs |-> {},
     facets |-> NoFacets, view |-> <<>>,
     storage |-> NoStorage, pm |-> NoProfile, select |-> NoSelect,
     saveDisabled |-> FALSE, wired |-> FALSE, hooked |-> FALSE, hookPending |-> FALSE,
     fed |-> <<>>, feeds |-> 0, edits |-> 0, clicks |-> 0, done |-> Did("none", <<>>)]

\* the set of the non-empty members of a list of strings
named(list) == {list[k] : k \in 1..Len(list)} \ {<<>>}

\* array.includes(x)
has(list, x) == \E k \in 1..Len(list) : list[k] = x

\* helper.js:1046 and 1237: the number read from a price text, NaN when none
priceNum(mod) == parseFloat(digitsAndDots(mod.price))

\* an unset bound, or a value within it
above(value, min) == min = null \/ (value # null /\ value >= min)
below(value, max) == max = null \/ (value # null /\ value <= max)

\* an attribute filter whose bounds are exclusive
attrMatchStrict(h, mod) ==
    \A a \in 1..Len(h.facets.selectedAttrs) :
        LET attr == h.facets.selectedAttrs[a]
            range == IF attr \in DOMAIN h.facets.selectedAttrRanges
                     THEN h.facets.selectedAttrRanges[attr]
                     ELSE [min |-> null, max |-> null]
            val == get(mod.attrValues, attr)
        IN /\ has(mod.attributes, attr)
           /\ ~(range.min # null /\ val # null /\ val <= range.min)
           /\ ~(range.max # null /\ val # null /\ val >= range.max)

\* helper.js:1011-1039
attrMatch(h, mod) ==
    \A a \in 1..Len(h.facets.selectedAttrs) :
        LET attr == h.facets.selectedAttrs[a]
            range == IF attr \in DOMAIN h.facets.selectedAttrRanges
                     THEN h.facets.selectedAttrRanges[attr]
                     ELSE [min |-> null, max |-> null]
            val == get(mod.attrValues, attr)
        IN /\ has(mod.attributes, attr)
           /\ ~(range.min # null /\ val # null /\ val < range.min)
           /\ ~(range.max # null /\ val # null /\ val > range.max)

\* a rank filter that is applied in either mode
mrMatchAnyMode(h, mod) ==
    above(mod.mrVal, h.facets.mrMinVal) /\ below(mod.mrVal, h.facets.mrMaxVal)

\* helper.js:1052-1060
mrMatch(h, mod) ==
    h.isTriggerMode \/ (above(mod.mrVal, h.facets.mrMinVal) /\ below(mod.mrVal, h.facets.mrMaxVal))

\* helper.js:1062-1070
rerollMatch(h, mod) ==
    \/ h.isTriggerMode
    \/ above(mod.rerollVal, h.facets.rerollMinVal) /\ below(mod.rerollVal, h.facets.rerollMaxVal)

\* helper.js:1101-1118
triggerMatch(h, mod) ==
    h.isTriggerMode =>
        \A attr \in DOMAIN h.facets.triggerFilterValues :
            LET filters == h.facets.triggerFilterValues[attr]
                value == get(mod.triggerValues, attr)
            IN above(value, filters.min) /\ below(value, filters.max)

\* a bound in days, typed in hundredths, in the unit the ages in days are held in
inDays(val) == IF val = null THEN null ELSE val * HoursPerDay

\* helper.js:1078-1085
ageDaysMatch(h, mod) ==
    /\ above(mod.ageDays, inDays(h.facets.ageMinVal))
    /\ below(mod.ageDays, inDays(h.facets.ageMaxVal))

\* an hour filter that is skipped while a bound in days is set
ageHoursMatchUnlessDays(h, mod) ==
    \/ h.facets.ageMinVal # null
    \/ h.facets.ageMaxVal # null
    \/ /\ above(mod.ageHours, h.facets.ageHoursMinVal)
       /\ below(mod.ageHours, h.facets.ageHoursMaxVal)

\* helper.js:1086-1093
ageHoursMatch(h, mod) ==
    /\ above(mod.ageHours, h.facets.ageHoursMinVal)
    /\ below(mod.ageHours, h.facets.ageHoursMaxVal)

\* helper.js:1003-1222: the predicate of the filter of updateResults
passes(h, mod) ==
    LET f == h.facets IN
    /\ f.activeCats = <<>> \/ has(f.activeCats, mod.category)
    /\ attrMatch(h, mod)
    /\ f.selectedSockets = <<>> \/ has(f.selectedSockets, mod.socketType)
    /\ f.selectedPlatforms = <<>> \/ has(f.selectedPlatforms, mod.platform)
    /\ priceNum(mod) # null =>
          /\ ~(f.priceMinVal # null /\ priceNum(mod) < f.priceMinVal)
          /\ ~(f.priceMaxVal # null /\ priceNum(mod) > f.priceMaxVal)
    /\ mrMatch(h, mod)
    /\ rerollMatch(h, mod)
    /\ f.selectedStatuses # <<>> =>
          \E s \in 1..Len(f.selectedStatuses) :
              toLowerCase(f.selectedStatuses[s]) = toLowerCase(mod.sellerStatus)
    /\ ageDaysMatch(h, mod)
    /\ ageHoursMatch(h, mod)
    /\ f.sellerFilterVal # <<>> => includes(toLowerCase(mod.sellerName), f.sellerFilterVal)
    /\ triggerMatch(h, mod)
    /\ \A a \in 1..Len(f.selectedNegAttrs) : ~has(mod.negAttributes, f.selectedNegAttrs[a])
    /\ (~h.isTriggerMode /\ f.selectedModuleNames # <<>>) => has(f.selectedModuleNames, mod.name)

\* helper.js:1236-1243: the price a record is sorted by
parsePrice(mod) == IF priceNum(mod) = null THEN 0 ELSE priceNum(mod)

\* the order String.prototype.localeCompare puts the characters of a
\* lower-cased name in: digits, then letters
Collation ==
    <<"0", "1", "2", "3", "4", "5", "6", "7", "8", "9",
      "a", "b", "c", "d", "e", "f", "g", "h", "i", "j", "k", "l", "m",
      "n", "o", "p", "q", "r", "s", "t", "u", "v", "w", "x", "y", "z">>

\* the place of a character in that order, 0 for any other character
rank(c) ==
    IF \E k \in 1..Len(Collation) : Collation[k] = c
    THEN CHOOSE k \in 1..Len(Collation) : Collation[k] = c
    ELSE 0

\* a.localeCompare(b): negative, zero or positive
RECURSIVE localeCompare(_, _)
localeCompare(a, b) ==
    IF a = <<>> /\ b = <<>> THEN 0
    ELSE IF a = <<>> THEN 0 - 1
    ELSE IF b = <<>> THEN 1
    ELSE IF rank(Head(a)) < rank(Head(b)) THEN 0 - 1
    ELSE IF rank(Head(a)) > rank(Head(b)) THEN 1
    ELSE localeCompare(Tail(a), Tail(b))

\* a comparator that places a record before its equals
precedesOrTies(a, b, sortVal) ==
    CASE sortVal = "priceAsc" -> parsePrice(a) - parsePrice(b) <= 0
      [] sortVal = "priceDesc" -> parsePrice(b) - parsePrice(a) <= 0
      [] sortVal = "nameAsc" ->
             localeCompare(toLowerCase(a.name), toLowerCase(b.name)) <= 0
      [] sortVal = "nameDesc" ->
             localeCompare(toLowerCase(b.name), toLowerCase(a.name)) <= 0
      [] OTHER -> FALSE

\* helper.js:1235-1250: the comparator of the sort is negative, that is
\* record a is placed before record b
precedes(a, b, sortVal) ==
    CASE sortVal = "priceAsc" -> parsePrice(a) - parsePrice(b) < 0
      [] sortVal = "priceDesc" -> parsePrice(b) - parsePrice(a) < 0
      [] sortVal = "nameAsc" ->
             localeCompare(toLowerCase(a.name), toLowerCase(b.name)) < 0
      [] sortVal = "nameDesc" ->
             localeCompare(toLowerCase(b.name), toLowerCase(a.name)) < 0
      [] OTHER -> FALSE

\* Array.prototype.sort, which is stable: positions of `modules`, in order
RECURSIVE sorted(_, _, _)
sorted(modules, positions, sortVal) ==
    IF positions = <<>> THEN <<>>
    ELSE LET before == sorted(modules, popped(positions), sortVal)
             last == positions[Len(positions)]
             \* the places of `before` whose record the last one precedes
             later == {k \in 1..Len(before) :
                          precedes(modules[last], modules[before[k]], sortVal)}
             at == IF later = {} THEN Len(before) + 1
                   ELSE CHOOSE k \in later : \A j \in later : k <= j
         IN SubSeq(before, 1, at - 1) \o <<last>> \o SubSeq(before, at, Len(before))

\* helper.js:999-1251: the positions in `modules` of the records of the view, in
\* the order of the cards
updateResults(h) ==
    LET all == [k \in 1..Len(h.modules) |-> k]
        filtered == SelectSeq(all, LAMBDA k : passes(h, h.modules[k]))
    IN sorted(h.modules, filtered, h.facets.sortVal)

\* a render that sorts the record list of the page itself
renderedInPlace(h) ==
    [h EXCEPT !.view = [k \in 1..Len(updateResults(h)) |-> k],
              !.modules = [k \in 1..Len(updateResults(h)) |-> h.modules[updateResults(h)[k]]]]

\* the page with its cards drawn anew
rendered(h) == [h EXCEPT !.view = updateResults(h)]

\* helper.js:1616-1621: the collection and default name of the current mode
getStorageKeys(h) == IF h.isTriggerMode THEN "trigger" ELSE "ancestor"

\* helper.js:1623-1631
loadProfiles(h) == h.storage[getStorageKeys(h)].profiles

\* helper.js:1638-1641
loadDefaultProfileName(h) == h.storage[getStorageKeys(h)].default

\* helper.js:1652-1678: the triggerFilters of a state is null out of Trigger mode
getState(h) ==
    LET f == h.facets IN
    [priceMin |-> f.priceMinVal, priceMax |-> f.priceMaxVal,
     mrMin |-> f.mrMinVal, mrMax |-> f.mrMaxVal,
     rerollMin |-> f.rerollMinVal, rerollMax |-> f.rerollMaxVal,
     ageMin |-> f.ageMinVal, ageMax |-> f.ageMaxVal,
     ageHoursMin |-> f.ageHoursMinVal, ageHoursMax |-> f.ageHoursMaxVal,
     seller |-> f.sellerFilterVal, statuses |-> f.selectedStatuses,
     attributes |-> f.selectedAttrs, attributeRanges |-> f.selectedAttrRanges,
     negAttributes |-> f.selectedNegAttrs, moduleNames |-> f.selectedModuleNames,
     triggerFilters |-> [isNull |-> ~h.isTriggerMode,
                         object |-> IF h.isTriggerMode THEN f.triggerFilterValues ELSE <<>>],
     sort |-> f.sortVal]

\* helper.js:1680-1784: applyState up to its call of updateResults.  The name
\* is not in scope there (the function is local to initializeUI, helper.js:999
\* and 1420-1422), so the call throws a ReferenceError: the assignments before
\* it stay, the cards are not drawn anew and the caller is left.
applyState(h, state) ==
    [h EXCEPT
        !.checkedStatuses = named(state.statuses) \cap h.statuses,
        !.facets = [@ EXCEPT
            !.priceMinVal = state.priceMin,
            !.priceMaxVal = state.priceMax,
            !.mrMinVal = IF h.isTriggerMode THEN @ ELSE state.mrMin,
            !.mrMaxVal = IF h.isTriggerMode THEN @ ELSE state.mrMax,
            !.rerollMinVal = IF h.isTriggerMode THEN @ ELSE state.rerollMin,
            !.rerollMaxVal = IF h.isTriggerMode THEN @ ELSE state.rerollMax,
            !.ageMinVal = state.ageMin,
            !.ageMaxVal = state.ageMax,
            !.ageHoursMinVal = state.ageHoursMin,
            !.ageHoursMaxVal = state.ageHoursMax,
            !.sellerFilterVal = state.seller,
            !.selectedStatuses = state.statuses,
            !.selectedAttrs = state.attributes,
            !.selectedAttrRanges = state.attributeRanges,
            !.selectedNegAttrs = state.negAttributes,
            !.selectedModuleNames = state.moduleNames,
            !.triggerFilterValues =
                IF h.isTriggerMode /\ ~state.triggerFilters.isNull
                THEN state.triggerFilters.object ELSE <<>>,
            !.sortVal = state.sort]]

\* helper.js:1789-1793: JSON.stringify of the two states differ
isCurrentStateDirty(h) == getState(h) # h.pm.currentProfileState

\* helper.js:1795-1823
hasAnyFilterSet(h) ==
    LET state == getState(h) IN
    \/ state.priceMin # null \/ state.priceMax # null
    \/ /\ ~h.isTriggerMode
       /\ \/ state.mrMin # null \/ state.mrMax # null
          \/ state.rerollMin # null \/ state.rerollMax # null
    \/ state.ageMin # null \/ state.ageMax # null
    \/ state.ageHoursMin # null \/ state.ageHoursMax # null
    \/ trim(state.seller) # <<>>
    \/ state.statuses # <<>> \/ state.attributes # <<>>
    \/ state.negAttributes # <<>> \/ state.moduleNames # <<>>
    \/ /\ h.isTriggerMode
       /\ \E attr \in DOMAIN state.triggerFilters.object :
              \/ state.triggerFilters.object[attr].min # null
              \/ state.triggerFilters.object[attr].max # null

\* helper.js:1825-1844
updateButtons(h) ==
    [h EXCEPT !.saveDisabled =
        IF h.select.value # <<>> THEN ~isCurrentStateDirty(h) ELSE ~hasAnyFilterSet(h)]

\* helper.js:2013-2022: window.__updateResults once initUI has wrapped it
hookedUpdateResults(h) == IF h.hooked THEN updateButtons(rendered(h)) ELSE rendered(h)

\* helper.js:1627, 1918 and 1945: is profs[name] truthy, for profs an object
\* parsed from JSON: it is when profs holds the name (a saved state is an
\* object) and when Object.prototype has a member of that name
truthy(profs, name) ==
    name \in DOMAIN profs \/ name = <<"v", "a", "l", "u", "e", "O", "f">>

\* delete object[key]
without(object, key) == [k \in DOMAIN object \ {key} |-> object[k]]

\* helper.js:1850-2035: initUI.  With a default profile it calls applyState,
\* which throws before any listener is attached; without one it attaches the
\* listeners and wraps window.__updateResults, at once when initializeUI has
\* exposed it and from an interval otherwise.
initUI(h) ==
    LET profiles == loadProfiles(h)
        defaultName == loadDefaultProfileName(h)
        listed == [h EXCEPT !.select.options = DOMAIN profiles]
    IN IF defaultName # <<>> /\ defaultName \in DOMAIN profiles
       THEN applyState([listed EXCEPT
                           !.done = Did("loaded", defaultName),
                           !.select.value = defaultName,
                           !.pm = [currentProfileName |-> defaultName,
                                   currentProfileState |-> profiles[defaultName]]],
                       profiles[defaultName])
       ELSE updateButtons([listed EXCEPT
                              !.select.value = <<>>,
                              !.pm = NoProfile,
                              !.wired = TRUE,
                              !.hooked = h.initialized,
                              !.hookPending = ~h.initialized])

\* helper.js:1884-1900: the change listener of the select, which holds `name` now
selectChange(h, name) ==
    LET picked == [h EXCEPT !.select.value = name] IN
    IF name = <<>> THEN updateButtons([picked EXCEPT !.pm = NoProfile, !.done = Did("cleared", <<>>)])
    ELSE IF name \in DOMAIN loadProfiles(h)
    THEN applyState([picked EXCEPT
                        !.done = Did("loaded", name),
                        !.pm = [currentProfileName |-> name,
                                currentProfileState |-> loadProfiles(h)[name]]],
                    loadProfiles(h)[name])
    ELSE picked

\* a create that takes the name whether or not a profile has it
createProfileOverwriting(h, name) ==
    LET trimmed == trim(name) IN
    IF trimmed = <<>> THEN h
    ELSE updateButtons(
             [h EXCEPT
                 !.storage[getStorageKeys(h)].profiles = put(@, trimmed, getState(h)),
                 !.done = Did("created", trimmed),
                 !.select = [value |-> trimmed, options |-> @.options \cup {trimmed}],
                 !.pm = [currentProfileName |-> trimmed,
                         currentProfileState |-> getState(h)]])

\* helper.js:1913-1934: save with no profile selected; name is the answer to the prompt
createProfile(h, name) ==
    LET trimmed == trim(name) IN
    IF trimmed = <<>> THEN h
    ELSE IF truthy(loadProfiles(h), trimmed) THEN [h EXCEPT !.done = Did("rejected", trimmed)]
    ELSE updateButtons(
             [h EXCEPT
                 !.storage[getStorageKeys(h)].profiles = put(@, trimmed, getState(h)),
                 !.done = Did("created", trimmed),
                 !.select = [value |-> trimmed, options |-> @.options \cup {trimmed}],
                 !.pm = [currentProfileName |-> trimmed,
                         currentProfileState |-> getState(h)]])

\* helper.js:1905-1912: save with a profile selected, once confirmed
overwriteProfile(h) ==
    updateButtons(
        [h EXCEPT
            !.storage[getStorageKeys(h)].profiles = put(@, h.select.value, getState(h)),
            !.done = Did("overwritten", h.select.value),
            !.pm.currentProfileState = getState(h)])

\* helper.js:1902-1935: the click listener of the save button; ok is the answer
\* to confirm, name the answer to prompt
saveClick(h, name, ok) ==
    IF h.select.value # <<>> THEN (IF ok THEN overwriteProfile(h) ELSE h)
    ELSE createProfile(h, name)

\* helper.js:1938-1969: the click listener of the rename button; newName is the
\* answer to prompt.  A profile the collection does not hold has the value
\* undefined, which JSON.stringify leaves out.
renameClick(h, newName) ==
    LET selectedName == h.select.value
        trimmed == trim(newName)
        profs == loadProfiles(h)
        held == selectedName \in DOMAIN profs
    IN IF selectedName = <<>> \/ trimmed = <<>> \/ newName = selectedName THEN h
       ELSE IF truthy(profs, trimmed) THEN [h EXCEPT !.done = Did("rejected", trimmed)]
       ELSE updateButtons(
                [h EXCEPT
                    !.done = Did("renamed", trimmed),
                    !.storage[getStorageKeys(h)] =
                        [profiles |->
                            IF held
                            THEN put(without(profs, selectedName), trimmed, profs[selectedName])
                            ELSE profs,
                         default |-> IF @.default = selectedName THEN trimmed ELSE @.default],
                    !.select = [value |-> trimmed,
                                options |-> IF selectedName \in @.options
                                            THEN (@.options \ {selectedName}) \cup {trimmed}
                                            ELSE @.options],
                    !.pm = [currentProfileName |-> trimmed,
                            currentProfileState |->
                                IF held THEN profs[selectedName] ELSE NoState]])

\* a delete that leaves the default name as it is
deleteClickKeepingDefault(h, ok) ==
    IF h.select.value = <<>> \/ ~ok THEN h
    ELSE updateButtons(
             [h EXCEPT
                 !.storage[getStorageKeys(h)].profiles = without(@, h.select.value),
                 !.done = Did("deleted", h.select.value),
                 !.select = [value |-> <<>>, options |-> @.options \ {h.select.value}],
                 !.pm = NoProfile])

\* helper.js:1973-1995: the click listener of the delete button; ok is the
\* answer to confirm
deleteClick(h, ok) ==
    IF h.select.value = <<>> \/ ~ok THEN h
    ELSE updateButtons(
             [h EXCEPT
                 !.storage[getStorageKeys(h)] =
                     [profiles |-> without(@.profiles, h.select.value),
                      default |-> IF @.default = h.select.value THEN <<>> ELSE @.default],
                 !.done = Did("deleted", h.select.value),
                 !.select = [value |-> <<>>, options |-> @.options \ {h.select.value}],
                 !.pm = NoProfile])

\* helper.js:1999-2004: the click listener of the set-default button
setDefaultClick(h) ==
    IF h.select.value = <<>> THEN h
    ELSE [h EXCEPT !.storage[getStorageKeys(h)].default = h.select.value, 
          !.done = Did("defaulted", h.select.value)]

\* helper.js:210-224: the mode initializeUI settles for a data set
detectTriggerMode(moduleType, data) ==
    IF moduleType = "trigger" THEN TRUE
    ELSE /\ Len(data) > 0
         /\ \A k \in 1..Len(data) :
                /\ data[k].category # <<>>
                /\ includes(toLowerCase(data[k].category), <<"t", "r", "i", "g", "g", "e", "r">>)

\* helper.js:95-175, 752-783 and 910-932: the loops of initializeUI over the
\* records of data, which annotate each record and fill the range maps
RECURSIVE initEach(_, _, _, _, _)
initEach(data, isTrigger, modules, attrRanges, triggerRanges) ==
    IF data = <<>>
    THEN [modules |-> modules, attrRangeMap |-> attrRanges, triggerAttrMap |-> triggerRanges]
    ELSE With(Head(data), LAMBDA mod :
         With(measureStats(mod.stats, <<>>, attrRanges, FALSE), LAMBDA m :
         With(measureTrigger(mod.stats, <<>>, triggerRanges), LAMBDA t :
         With(mod @@ [negAttributes |-> initNegAttributes(mod.stats),
                      attrValues |-> m.attrValues,
                      mrVal |-> mrValOf(mod), rerollVal |-> rerollValOf(mod),
                      ageDays |-> parseAgeToDays(mod.regDate),
                      ageHours |-> parseAgeToHours(mod.regDate),
                      triggerValues |-> IF isTrigger THEN t.triggerValues ELSE <<>>],
              LAMBDA annotated :
         initEach(Tail(data), isTrigger, Append(modules, annotated), m.attrRangeMap,
                  IF isTrigger THEN t.triggerAttrMap ELSE triggerRanges)))))

\* helper.js:600-618 and 636-657: the boxes that were checked and are built again
kept(selected, found) == SelectSeq(selected, LAMBDA s : s \in found)

\* helper.js:64-1429
initializeUI(h, data) ==
    With(detectTriggerMode(h.moduleType, data), LAMBDA isTrigger :
    With(initEach(data, isTrigger, <<>>, h.attrRangeMap, <<>>), LAMBDA r :
    rendered(
        [h EXCEPT
            !.initialized = TRUE,
            !.hooked = FALSE,
            !.modules = r.modules,
            !.attributes = UNION {named(r.modules[k].attributes) : k \in 1..Len(data)},
            !.moduleNames = {r.modules[k].name : k \in 1..Len(data)} \ {<<>>},
            !.negAttributes = UNION {named(r.modules[k].negAttributes) : k \in 1..Len(data)},
            !.attrRangeMap = r.attrRangeMap,
            !.statuses = {r.modules[k].sellerStatus : k \in 1..Len(data)} \ {<<>>},
            !.checkedStatuses = {},
            !.triggerInputs =
                IF isTrigger
                THEN UNION {DOMAIN r.modules[k].triggerValues : k \in 1..Len(data)} \ {<<>>}
                ELSE {},
            !.isTriggerMode = isTrigger,
            !.triggerAttrMap = IF isTrigger THEN r.triggerAttrMap ELSE @,
            !.facets = [@ EXCEPT
                !.selectedAttrs = <<>>,
                !.selectedSockets =
                    kept(@, {r.modules[k].socketType : k \in 1..Len(data)} \ {<<>>}),
                !.selectedPlatforms =
                    kept(@, {r.modules[k].platform : k \in 1..Len(data)} \ {<<>>}),
                !.priceMinVal = null,
                !.priceMaxVal = null,
                !.triggerFilterValues = IF isTrigger THEN <<>> ELSE @,
                !.sortVal = "priceDesc"]])))

\* helper.js:1450-1587: the loop of appendModules over the records of newData
RECURSIVE appendEach(_, _)
appendEach(h, newData) ==
    IF newData = <<>> THEN h
    ELSE With(Head(newData), LAMBDA mod :
         IF \/ mod.name = <<>>
            \/ \E k \in 1..Len(h.modules) :
                   /\ h.modules[k].name = mod.name
                   /\ h.modules[k].price = mod.price
                   /\ h.modules[k].sellerName = mod.sellerName
         THEN appendEach(h, Tail(newData))
         ELSE With(measureStats(mod.stats, <<>>, h.attrRangeMap, TRUE), LAMBDA m :
              With(measureTrigger(mod.stats, <<>>, h.triggerAttrMap), LAMBDA t :
              With(mod @@ [negAttributes |-> appendNegAttributes(mod.stats),
                           attrValues |-> m.attrValues,
                           mrVal |-> mrValOf(mod), rerollVal |-> rerollValOf(mod),
                           ageDays |-> parseAgeToDays(mod.regDate),
                           ageHours |-> parseAgeToHours(mod.regDate),
                           triggerValues |-> IF h.isTriggerMode THEN t.triggerValues ELSE <<>>],
                   LAMBDA annotated :
              With([h EXCEPT
                       !.modules = Append(@, annotated),
                       !.negAttributes = @ \cup named(annotated.negAttributes),
                       !.attrRangeMap = m.attrRangeMap,
                       !.triggerAttrMap = IF h.isTriggerMode THEN t.triggerAttrMap ELSE @,
                       !.facets.triggerFilterValues =
                           IF h.isTriggerMode
                           THEN @ @@ [attr \in DOMAIN t.triggerValues |->
                                         [min |-> null, max |-> null]]
                           ELSE @],
                   LAMBDA next : appendEach(next, Tail(newData)))))))

\* helper.js:1448-1595
appendModules(h, newData) == hookedUpdateResults(appendEach(h, newData))

----------------------------------------------------------------------------
\* The listings the market page can render, as the parse script reads them.

Rec(n, p, s, st) == [name |-> n, price |-> p, sellerName |-> s, sellerStatus |-> st]

Listing ==
    << Rec(<<"A", "b">>,      <<"1", "0">>, <<"s", "1">>, "Online"),
       Rec(<<"a", "b">>,      <<"1", "0">>, <<"s", "2">>, "Online"),
       Rec(<<"C", "d">>,      <<"2", "0">>, <<"s", "1">>, "Online"),
       Rec(<<"A", "b">>,      <<"3", "0">>, <<"s", "1">>, "Offline"),
       Rec(<<"x", "A", "B">>, <<"5">>,      <<"s", "2">>, "Online"),
       Rec(<<"C", "d">>,      <<"7">>,      <<"s", "2">>, "Online"),
       Rec(<<>>,              <<"1">>,      <<"s", "1">>, "Online"),
       Rec(<<"A", "b">>,      <<"1", "0">>, <<"s", "1">>, "Offline") >>

\* One rendering of the page: the items lo..hi of the listing and the loader.
View(lo, hi, loader) == [lo |-> lo, hi |-> hi, loaderVisible |-> loader]

\* A page behaviour: the renderings successive parse passes find; the last
\* one stays once the page has stopped changing.
Pages ==
    [ steady5   |-> << View(1, 5, TRUE), View(1, 5, FALSE) >>,
      grow47    |-> << View(1, 4, TRUE), View(1, 7, FALSE) >>,
      drift     |-> << View(1, 3, TRUE), View(6, 8, TRUE), View(6, 8, FALSE) >>,
      empty     |-> << View(1, 0, FALSE) >>,
      emptyBusy |-> << View(1, 0, TRUE) >>,
      emptyLate |-> << View(1, 0, TRUE), View(1, 0, TRUE), View(1, 0, TRUE),
                       View(1, 0, FALSE) >>,
      busy      |-> << View(1, 2, TRUE) >> ]

\* The setup widgets a page may lack (the injected setup step then does nothing).
SetupSteps == {"selectModuleType", "enterSearch", "selectPlatform"}
WidgetGaps == { {}, {"selectModuleType"}, {"enterSearch", "selectPlatform"} }

\* What the market URL can show: a page behaviour and its widget gaps.
AllSites == [page : DOMAIN Pages, gaps : WidgetGaps]
ShortSites == [page : {"empty", "drift"}, gaps : { {} }]

\* The filters the operator submits with start-search.
FilterInputs ==
    { [moduleType |-> "Ancestors", moduleName |-> <<>>, platform |-> "PC"],
      [moduleType |-> "Trigger", moduleName |-> <<" ", "A", "B", " ">>, platform |-> "PC"] }

\* those with a module name to match
NamedFilters == {f \in FilterInputs : f.moduleName # <<>>}

NoError == ""

----------------------------------------------------------------------------
\* What the parse script returns for a window whose page has served `served`
\* parse passes so far (main.js:486-499).
parseScript(w) ==
    LET script == Pages[w.page]
        v == script[Min(w.served + 1, Len(script))]
        modules == SubSeq(Listing, v.lo, v.hi)
    IN [modules |-> modules, itemCount |-> Len(modules), loaderVisible |-> v.loaderVisible]

\* main.js:521
Key(mod) == mod.name \o <<"|">> \o mod.price \o <<"|">> \o mod.sellerName

\* dedupe without the seen.has(key) test: every parsed module is pushed
dedupeAll(seen, deduped, modules) ==
    [seen |-> seen \cup {Key(modules[k]) : k \in 1..Len(modules)},
     deduped |-> deduped \o modules]

\* main.js:520-526: the loop over parsedResult.modules
RECURSIVE dedupe(_, _, _)
dedupe(seen, deduped, modules) ==
    IF modules = <<>> THEN [seen |-> seen, deduped |-> deduped]
    ELSE LET mod == Head(modules) IN
         IF Key(mod) \notin seen
         THEN dedupe(seen \cup {Key(mod)}, Append(deduped, mod), Tail(modules))
         ELSE dedupe(seen, deduped, Tail(modules))

\* a stability counter that is never reset
nextStableNoReset(count, lastCount, stable) == stable + 1

\* main.js:539-545: the stability counter after a pass that found `count` items
nextStable(count, lastCount, stable) == IF count = lastCount THEN stable + 1 ELSE 0

\* a name filter that compares case-sensitively
nameFilterExact(deduped, filters) ==
    LET mName == trim(filters.moduleName)
        Match(m) == m.name # <<>> /\ includes(m.name, mName)
    IN IF mName # <<>> THEN SelectSeq(deduped, Match) ELSE deduped

\* main.js:528-532 and 587-591
nameFilter(deduped, filters) ==
    LET mName == toLowerCase(trim(filters.moduleName))
        Match(m) == m.name # <<>> /\ includes(toLowerCase(m.name), mName)
    IN IF mName # <<>> THEN SelectSeq(deduped, Match) ELSE deduped

\* Events sent to the hub renderer.
Updated(id, data, finished, error) ==
    [type |-> "search-updated", searchId |-> id, data |-> data,
     finished |-> finished, error |-> error]
Progress(id, stage) == [type |-> "search-progress", searchId |-> id, stage |-> stage]
Stopped(id) == [type |-> "search-stopped", searchId |-> id]


----------------------------------------------------------------------------
\* State after construction (main.js:5-7): no search, no window.

Lags == {0, zeroTimeout}
SlowLags == {zeroTimeout}
ClockCap == zeroTimeout + 1

\* main.js:555: Date.now() - zeroStart, read only while nothing is collected
\* (deduped.length === 0 && ...); the clock is followed up to ClockCap, and
\* no longer once a record is collected, since deduped never shrinks
Clock(deduped, ms) == IF deduped = <<>> THEN Min(ms, ClockCap) ELSE 0

\* new BrowserWindow({show: false, ...}), to load the market URL; applied are
\* the setup actions that found their widget on the page and acted on it
\* owner is the search whose handler created the window
NewWindow(id) ==
    [destroyed |-> FALSE, owner |-> id, page |-> scope.site.page, gaps |-> scope.site.gaps,
     applied |-> {}, served |-> 0]

\* a destroyed window: its page is gone with it
Destroyed ==
    [destroyed |-> TRUE, owner |-> 0, page |-> "empty", gaps |-> {}, applied |-> {}, served |-> 0]

\* a close that takes every hidden window down
CloseEveryWindow(wins, w) == [k \in DOMAIN wins |-> Destroyed]

\* BrowserWindow.close() of window number w, guarded by !isDestroyed()
CloseWindow(wins, w) == [wins EXCEPT ![w] = Destroyed]

\* main.js:250-254 and 503-506: a fresh activation of runSearch, awaiting its
\* first injection; elapsed is Date.now() - zeroStart, saturated above zeroTimeout
NewTask(id, entry) ==
    [id |-> id, win |-> entry.window, filters |-> entry.filters,
     pc |-> "selectModuleType", i |-> 0, seen |-> {}, deduped |-> <<>>,
     lastCount |-> 0, stable |-> 0, elapsed |-> 0, exit |-> "none"]

\* the task leaves runSearch by `exit`; its locals go out of scope
Leave(task, exit) ==
    [NewTask(task.id, [window |-> task.win, filters |-> task.filters])
        EXCEPT !.pc = "done", !.exit = exit]

TypeOK ==
    /\ searchCounter \in Nat
    /\ DOMAIN searches = 1..(searchCounter - 1)
    /\ \A t \in DOMAIN tasks : tasks[t].id \in DOMAIN searches /\ tasks[t].win \in DOMAIN windows
    /\ \A l \in loads : l.id \in DOMAIN searches /\ l.win \in DOMAIN windows

\* the main process once app.whenReady has run
InitMain ==
    /\ searches = <<>>
    /\ searchCounter = 1
    /\ windows = <<>>
    /\ loads = {}
    /\ tasks = <<>>
    /\ emitted = <<>>
    /\ stopped = {}

\* with no helper page fed yet
InitCommon == InitMain /\ helper = Loaded("ancestor")

----------------------------------------------------------------------------
\* start-search (main.js:138-177)

StartSearch(filters) ==
    /\ startsLeft > 0
    /\ LET id == searchCounter
           w == Len(windows) + 1
       IN /\ searchCounter' = searchCounter + 1
          /\ windows' = Append(windows, NewWindow(id))
          /\ searches' = Append(searches,
                [window |-> w, filters |-> filters, running |-> TRUE, data |-> <<>>])
          /\ loads' = loads \cup {[kind |-> "start", id |-> id, win |-> w]}
    /\ startsLeft' = startsLeft - 1
    /\ emitted' = <<>>
    /\ UNCHANGED <<tasks, scope, stopped, helper>>

\* main.js:160-163: the market page loaded, runSearch(id) begins
StartLoaded(l) ==
    /\ l \in loads /\ l.kind = "start"
    /\ ~windows[l.win].destroyed
    /\ loads' = loads \ {l}
    /\ tasks' = Append(tasks, NewTask(l.id, searches[l.id]))
    /\ emitted' = <<>>
    /\ UNCHANGED <<searches, searchCounter, windows, scope, startsLeft, stopped, helper>>

\* main.js:164-175: the page failed to load
StartLoadFailed(l) ==
    /\ l \in loads /\ l.kind = "start"
    /\ loads' = loads \ {l}
    /\ searches' = [searches EXCEPT ![l.id].running = FALSE]
    /\ emitted' = << Updated(l.id, <<>>, TRUE, "failed to load") >>
    /\ UNCHANGED <<searchCounter, windows, tasks, scope, startsLeft, stopped, helper>>

----------------------------------------------------------------------------
\* runSearch (main.js:250-605), one action per turn between two awaits.

AfterInject ==
    [selectModuleType |-> "settle1", enterSearch |-> "settle2", selectPlatform |-> "settle3"]
AfterSettle ==
    [settle1 |-> "enterSearch", settle2 |-> "selectPlatform", settle3 |-> "parse"]
SettlePoints == {"settle1", "settle2", "settle3"}

\* main.js:579-595: Finalize results
FinalizeEntry(entry, deduped) == [entry EXCEPT !.data = deduped, !.running = FALSE]
FinalSnapshot(task, deduped) == Updated(task.id, nameFilter(deduped, task.filters), TRUE, NoError)

\* an outer catch that drops the stored records
CatchEntryClearing(entry) == [entry EXCEPT !.running = FALSE, !.data = <<>>]

\* main.js:596-604: the outer catch
CatchEntry(entry) == [entry EXCEPT !.running = FALSE]
ErrorSnapshot(task) == Updated(task.id, <<>>, TRUE, "exception")

\* a setup step that ends the search when the page lacks its widget
SetupInjectedOrAbort(t) ==
    LET task == tasks[t]
        w == windows[task.win]
    IN
    /\ task.pc \in SetupSteps
    /\ ~w.destroyed
    /\ IF task.pc \in w.gaps
       THEN /\ tasks' = [tasks EXCEPT ![t] = Leave(@, "error")]
            /\ searches' = [searches EXCEPT ![task.id] = CatchEntry(@)]
            /\ emitted' = << ErrorSnapshot(task) >>
            /\ UNCHANGED windows
       ELSE /\ tasks' = [tasks EXCEPT ![t].pc = AfterInject[task.pc]]
            /\ windows' = [windows EXCEPT ![task.win].applied = @ \cup {task.pc}]
            /\ emitted' = <<>>
            /\ UNCHANGED searches
    /\ UNCHANGED <<searchCounter, loads, scope, startsLeft, stopped, helper>>

\* main.js:272, 302, 327: a setup injection returned; it acted on its widget
\* if the page has it (if (btn) ..., if (input) ...) and did nothing otherwise;
\* either way the task goes on to the settle delay
SetupInjected(t) ==
    LET task == tasks[t]
        w == windows[task.win]
    IN
    /\ task.pc \in SetupSteps
    /\ ~w.destroyed
    /\ tasks' = [tasks EXCEPT ![t].pc = AfterInject[task.pc]]
    /\ windows' = [windows EXCEPT ![task.win].applied = @ \cup ({task.pc} \ w.gaps)]
    /\ emitted' = <<>>
    /\ UNCHANGED <<searches, searchCounter, loads, scope, startsLeft, stopped, helper>>

\* a setup injection threw: the outer catch ends the search
SetupThrew(t) ==
    /\ tasks[t].pc \in SetupSteps
    /\ tasks' = [tasks EXCEPT ![t] = Leave(@, "error")]
    /\ searches' = [searches EXCEPT ![tasks[t].id] = CatchEntry(@)]
    /\ emitted' = << ErrorSnapshot(tasks[t]) >>
    /\ UNCHANGED <<searchCounter, windows, loads, scope, startsLeft, stopped, helper>>

\* main.js:310, 335, 341
ProgressAfter(task) ==
    CASE task.pc = "settle1" -> <<>>
      [] task.pc = "settle2" -> << Progress(task.id, "enterName") >>
      [] task.pc = "settle3" -> << Progress(task.id, "setPlatform"), Progress(task.id, "waiting") >>

\* main.js:274, 304, 329: a settle delay elapsed; the next injection is issued,
\* which throws at once when the task's window is destroyed
SettleElapsed(t) ==
    LET task == tasks[t]
        gone == windows[task.win].destroyed
    IN
    /\ task.pc \in SettlePoints
    /\ IF ~gone
       THEN /\ tasks' = [tasks EXCEPT ![t].pc = AfterSettle[task.pc]]
            /\ emitted' = ProgressAfter(task)
            /\ UNCHANGED searches
       ELSE IF task.pc = "settle3"
       THEN \* the first parse injection throws inside the loop's try: break, finalize
            /\ tasks' = [tasks EXCEPT ![t] = Leave(@, "parse-error")]
            /\ searches' = [searches EXCEPT ![task.id] = FinalizeEntry(@, task.deduped)]
            /\ emitted' = ProgressAfter(task) \o << FinalSnapshot(task, task.deduped) >>
       ELSE /\ tasks' = [tasks EXCEPT ![t] = Leave(@, "error")]
            /\ searches' = [searches EXCEPT ![task.id] = CatchEntry(@)]
            /\ emitted' = ProgressAfter(task) \o << ErrorSnapshot(task) >>
    /\ UNCHANGED <<searchCounter, windows, loads, scope, startsLeft, stopped, helper>>

\* main.js:511-569: the parse injection returned; dedup, incremental snapshot,
\* stability, zero-result timeout, then the scroll injection is issued
ParseReturned(t, lag) ==
    LET task == tasks[t]
        id == task.id
        parsedResult == parseScript(windows[task.win])
        merged == dedupe(task.seen, task.deduped, parsedResult.modules)
        filtered == nameFilter(merged.deduped, task.filters)
        count == parsedResult.itemCount
        stable == nextStable(count, task.lastCount, task.stable)
        elapsed == Clock(merged.deduped, task.elapsed + lag)
        polled == [task EXCEPT !.seen = merged.seen, !.deduped = merged.deduped,
                               !.lastCount = count, !.stable = stable, !.elapsed = elapsed]
        incremental == Updated(id, filtered, FALSE, NoError)
    IN
    /\ task.pc = "parse"
    /\ ~windows[task.win].destroyed
    /\ IF stable >= stableNeeded /\ ~parsedResult.loaderVisible
       THEN /\ tasks' = [tasks EXCEPT ![t] = Leave(polled, "stable")]
            /\ searches' = [searches EXCEPT ![id] = FinalizeEntry(@, merged.deduped)]
            /\ windows' = [windows EXCEPT ![task.win].served = @ + 1]
            /\ emitted' = << incremental, FinalSnapshot(task, merged.deduped) >>
       ELSE IF Len(merged.deduped) = 0 /\ elapsed > zeroTimeout
       THEN /\ tasks' = [tasks EXCEPT ![t] = Leave(polled, "timeout")]
            /\ searches' = [searches EXCEPT ![id].data = filtered, ![id].running = FALSE]
            /\ windows' = CloseWindow([windows EXCEPT ![task.win].served = @ + 1],
                                      searches[id].window)
            /\ emitted' = << incremental, Updated(id, <<>>, TRUE, "timeout") >>
       ELSE /\ tasks' = [tasks EXCEPT ![t] = [polled EXCEPT !.pc = "scroll"]]
            /\ searches' = [searches EXCEPT ![id].data = filtered]
            /\ windows' = [windows EXCEPT ![task.win].served = @ + 1]
            /\ emitted' = << incremental >>
    /\ UNCHANGED <<searchCounter, loads, scope, startsLeft, stopped, helper>>

\* main.js:513-517: the parse injection threw: break, then finalize
ParseThrew(t) ==
    LET task == tasks[t] IN
    /\ task.pc = "parse"
    /\ tasks' = [tasks EXCEPT ![t] = Leave(@, "parse-error")]
    /\ searches' = [searches EXCEPT ![task.id] = FinalizeEntry(@, task.deduped)]
    /\ emitted' = << FinalSnapshot(task, task.deduped) >>
    /\ UNCHANGED <<searchCounter, windows, loads, scope, startsLeft, stopped, helper>>

\* main.js:571-577: the scroll injection returned; the inter-poll delay starts
ScrollReturned(t) ==
    /\ tasks[t].pc = "scroll"
    /\ ~windows[tasks[t].win].destroyed
    /\ tasks' = [tasks EXCEPT ![t].pc = "wait"]
    /\ emitted' = <<>>
    /\ UNCHANGED <<searches, searchCounter, windows, loads, scope, startsLeft, stopped, helper>>

\* the scroll injection threw: the outer catch ends the search
ScrollThrew(t) ==
    /\ tasks[t].pc = "scroll"
    /\ tasks' = [tasks EXCEPT ![t] = Leave(@, "error")]
    /\ searches' = [searches EXCEPT ![tasks[t].id] = CatchEntry(@)]
    /\ emitted' = << ErrorSnapshot(tasks[t]) >>
    /\ UNCHANGED <<searchCounter, windows, loads, scope, startsLeft, stopped, helper>>

\* main.js:577, 508: the inter-poll delay elapsed; i++, then either the next
\* parse injection is issued or the loop ends at maxIterations
InterPollElapsed(t, lag) ==
    LET task == tasks[t]
        next == [task EXCEPT !.i = @ + 1,
                             !.elapsed = Clock(task.deduped, @ + interPollDelay + lag)]
    IN
    /\ task.pc = "wait"
    /\ IF next.i < maxIterations /\ ~windows[task.win].destroyed
       THEN /\ tasks' = [tasks EXCEPT ![t] = [next EXCEPT !.pc = "parse"]]
            /\ emitted' = <<>>
            /\ UNCHANGED searches
       ELSE /\ tasks' = [tasks EXCEPT ![t] =
                  Leave(next, IF next.i < maxIterations THEN "parse-error" ELSE "cap")]
            /\ searches' = [searches EXCEPT ![task.id] = FinalizeEntry(@, task.deduped)]
            /\ emitted' = << FinalSnapshot(task, task.deduped) >>
    /\ UNCHANGED <<searchCounter, windows, loads, scope, startsLeft, stopped, helper>>

----------------------------------------------------------------------------
\* stop-search (main.js:184-202)

\* a stop-search that discards the stored records
StopSearchClearing(id) ==
    /\ id \in DOMAIN searches
    /\ searches' = [searches EXCEPT ![id].running = FALSE, ![id].data = <<>>]
    /\ windows' = CloseWindow(windows, searches[id].window)
    /\ emitted' = << Updated(id, <<>>, TRUE, NoError), Stopped(id) >>
    /\ stopped' = stopped \cup {id}
    /\ UNCHANGED <<searchCounter, loads, tasks, scope, startsLeft, helper>>

\* main.js:185-201
StopSearch(id) ==
    /\ id \in DOMAIN searches
    /\ searches' = [searches EXCEPT ![id].running = FALSE]
    /\ windows' = CloseWindow(windows, searches[id].window)
    /\ emitted' = << Updated(id, searches[id].data, TRUE, NoError), Stopped(id) >>
    /\ stopped' = stopped \cup {id}
    /\ UNCHANGED <<searchCounter, loads, tasks, scope, startsLeft, helper>>

\* main.js:186: if (!entry) return
StopUnknown(id) ==
    /\ id \notin DOMAIN searches
    /\ UNCHANGED vars

----------------------------------------------------------------------------
\* retry-search (main.js:212-240)

\* main.js:213-227: up to the await of newWin.loadURL
RetrySearch(id) ==
    /\ id \in DOMAIN searches
    /\ Len(windows) < scope.maxWindows
    /\ windows' = Append(CloseWindow(windows, searches[id].window), NewWindow(id))
    /\ loads' = loads \cup {[kind |-> "retry", id |-> id, win |-> Len(windows) + 1]}
    /\ emitted' = <<>>
    /\ stopped' = stopped \ {id}
    /\ UNCHANGED <<searches, searchCounter, tasks, scope, startsLeft, helper>>

\* a retry-search that keeps the stored records
RetryLoadedKeeping(l) ==
    /\ l \in loads /\ l.kind = "retry"
    /\ loads' = loads \ {l}
    /\ searches' = [searches EXCEPT ![l.id].window = l.win, ![l.id].running = TRUE]
    /\ tasks' = Append(tasks, NewTask(l.id, searches'[l.id]))
    /\ emitted' = <<>>
    /\ UNCHANGED <<searchCounter, windows, scope, startsLeft, stopped, helper>>

\* main.js:228-239: the new window loaded; reset the entry, runSearch(searchId)
RetryLoaded(l) ==
    /\ l \in loads /\ l.kind = "retry"
    /\ loads' = loads \ {l}
    /\ searches' = [searches EXCEPT ![l.id].window = l.win, ![l.id].running = TRUE,
                                    ![l.id].data = <<>>]
    /\ tasks' = Append(tasks, NewTask(l.id, searches'[l.id]))
    /\ emitted' = <<>>
    /\ UNCHANGED <<searchCounter, windows, scope, startsLeft, stopped, helper>>

\* main.js:227: loadURL rejected; the handler's promise rejects and nothing
\* else runs
RetryLoadFailed(l) ==
    /\ l \in loads /\ l.kind = "retry"
    /\ loads' = loads \ {l}
    /\ emitted' = <<>>
    /\ UNCHANGED <<searches, searchCounter, windows, tasks, scope, startsLeft, stopped, helper>>

\* main.js:214: if (!entry) return
RetryUnknown(id) ==
    /\ id \notin DOMAIN searches
    /\ UNCHANGED vars

----------------------------------------------------------------------------
\* Specifications.

\* the search ids a command of the operator may name: one in use, or the next
CommandIds == 1..searchCounter

\* One search on any site, never stopped nor retried.
InitRun ==
    /\ InitCommon
    /\ scope \in [site : AllSites, filters : {FilterInputs}, maxWindows : {MaxWindows},
                  lags : {Lags}]
    /\ startsLeft = 1

NextRun ==
    \/ \E f \in scope.filters : StartSearch(f)
    \/ \E l \in loads : StartLoaded(l)
    \/ \E l \in loads : StartLoadFailed(l)
    \/ \E t \in DOMAIN tasks : SetupInjected(t)
    \/ \E t \in DOMAIN tasks : SetupThrew(t)
    \/ \E t \in DOMAIN tasks : SettleElapsed(t)
    \/ \E t \in DOMAIN tasks, lag \in scope.lags : ParseReturned(t, lag)
    \/ \E t \in DOMAIN tasks : ParseThrew(t)
    \/ \E t \in DOMAIN tasks : ScrollReturned(t)
    \/ \E t \in DOMAIN tasks : ScrollThrew(t)
    \/ \E t \in DOMAIN tasks, lag \in scope.lags : InterPollElapsed(t, lag)

SpecRun == InitRun /\ [][NextRun]_vars

\* Every awaited promise settles: a pending loadURL, injection or timer
\* eventually returns or throws.
Settle ==
    \/ \E l \in loads : StartLoaded(l) \/ StartLoadFailed(l)
    \/ \E t \in DOMAIN tasks :
          \/ SetupInjected(t) \/ SetupThrew(t) \/ SettleElapsed(t)
          \/ ParseThrew(t) \/ ScrollReturned(t) \/ ScrollThrew(t)
          \/ \E lag \in Lags : ParseReturned(t, lag) \/ InterPollElapsed(t, lag)

FairSpecRun == SpecRun /\ WF_vars(Settle)

\* One search on a short site, stopped and retried at any moment.
Init ==
    /\ InitCommon
    /\ scope \in [site : ShortSites, filters : {NamedFilters}, maxWindows : {MaxWindows},
                  lags : {Lags}]
    /\ startsLeft = 1

Next ==
    \/ NextRun
    \/ \E id \in CommandIds : StopSearch(id)
    \/ \E id \in CommandIds : StopUnknown(id)
    \/ \E id \in CommandIds : RetrySearch(id)
    \/ \E l \in loads : RetryLoaded(l)
    \/ \E l \in loads : RetryLoadFailed(l)
    \/ \E id \in CommandIds : RetryUnknown(id)

Spec == Init /\ [][Next]_vars

\* One search on a short site, never stopped, retried also while an earlier
\* retry-search is still loading its window.
OverlapSites == [page : {"drift"}, gaps : { {} }]

InitOverlap ==
    /\ InitCommon
    /\ scope \in [site : OverlapSites, filters : {NamedFilters}, maxWindows : {MaxWindows + 1},
                  lags : {Lags}]
    /\ startsLeft = 1

NextOverlap ==
    \/ NextRun
    \/ \E id \in CommandIds : RetrySearch(id)
    \/ \E l \in loads : RetryLoaded(l)
    \/ \E l \in loads : RetryLoadFailed(l)
    \/ \E id \in CommandIds : RetryUnknown(id)

SpecOverlap == InitOverlap /\ [][NextOverlap]_vars

\* Two searches side by side on a short, slow site; the operator stops the
\* first one at any moment and retries it once it is at rest, while the second
\* one runs.
InitTwo ==
    /\ InitCommon
    /\ scope \in [site : ShortSites, filters : {NamedFilters}, maxWindows : {MaxWindows + 1},
                  lags : {SlowLags}]
    /\ startsLeft = 2

FirstId == {1}

\* no load and no runSearch activation of the search is pending
AtRest(id) ==
    /\ \A l \in loads : l.id # id
    /\ \A t \in DOMAIN tasks : tasks[t].id = id => tasks[t].pc = "done"

NextTwo ==
    \/ NextRun
    \/ \E id \in FirstId : StopSearch(id)
    \/ \E id \in FirstId : StopUnknown(id)
    \/ \E id \in FirstId : AtRest(id) /\ RetrySearch(id)
    \/ \E l \in loads : RetryLoaded(l)
    \/ \E l \in loads : RetryLoadFailed(l)
    \/ \E id \in FirstId : RetryUnknown(id)

SpecTwo == InitTwo /\ [][NextTwo]_vars

----------------------------------------------------------------------------
\* The helper page of one tab: the data sets it is fed and the inputs of the
\* operator.

\* data sets fed to one page, and inputs of the operator to it
MaxFeeds == 2
MaxEdits == 2

\* the data sets a message can carry: no record, one listing, or two of the listings 1, 2 and 5
Batches ==
    {<<>>} \cup {<<Offers[i]>> : i \in 1..Len(Offers)}
           \cup {<<Offers[i], Offers[j]>> : i, j \in {1, 2, 5}}

\* the numbers the operator types into the inputs
MrInputs == {5}
RerollInputs == {1}
RangeInputs == {10 * Scale, 10 * Scale + 1, 20 * Scale}
TriggerInputs == {15 * Scale}
Bounds == {"min", "max"}

\* helper.js:1451-1454: the records of newData that are not yet present in
\* `fed`: those with a name whose name, price and seller no record before has
RECURSIVE notYetPresent(_, _)
notYetPresent(fed, newData) ==
    IF newData = <<>> THEN <<>>
    ELSE LET mod == Head(newData)
             present == mod.name = <<>> \/ \E k \in 1..Len(fed) :
                            /\ fed[k].name = mod.name
                            /\ fed[k].price = mod.price
                            /\ fed[k].sellerName = mod.sellerName
         IN IF present THEN notYetPresent(fed, Tail(newData))
            ELSE <<mod>> \o notYetPresent(Append(fed, mod), Tail(newData))

\* the page is sent a full data set
InitializeUI(data) ==
    /\ helper.feeds < MaxFeeds
    /\ helper' = [initializeUI(helper, data) EXCEPT !.fed = data, !.feeds = @ + 1]
    /\ UNCHANGED mainVars

\* the page is sent more records
AppendModules(newData) ==
    /\ helper.initialized
    /\ helper.feeds < MaxFeeds
    /\ helper' = [appendModules(helper, newData) EXCEPT
                     !.fed = @ \o notYetPresent(@, newData), !.feeds = @ + 1]
    /\ UNCHANGED mainVars

\* an input of the operator changes the facet state and the cards are drawn anew
Edited(facets) ==
    /\ helper.initialized
    /\ helper.edits < MaxEdits
    /\ helper' = rendered([helper EXCEPT !.facets = facets, !.edits = @ + 1])
    /\ UNCHANGED mainVars

\* helper.js:810-818
MrInput(bound, val) ==
    /\ ~helper.isTriggerMode
    /\ Edited(IF bound = "min" THEN [helper.facets EXCEPT !.mrMinVal = val]
              ELSE [helper.facets EXCEPT !.mrMaxVal = val])

\* helper.js:827-835
RerollInput(bound, val) ==
    /\ ~helper.isTriggerMode
    /\ Edited(IF bound = "min" THEN [helper.facets EXCEPT !.rerollMinVal = val]
              ELSE [helper.facets EXCEPT !.rerollMaxVal = val])

\* helper.js:348-376: a suggestion of the attribute search is picked
SelectAttr(attr) ==
    /\ ~helper.isTriggerMode
    /\ attr \in helper.attributes
    /\ ~has(helper.facets.selectedAttrs, attr)
    /\ Edited([helper.facets EXCEPT
                  !.selectedAttrs = Append(@, attr),
                  !.selectedAttrRanges =
                      IF attr \in DOMAIN @ THEN @
                      ELSE put(@, attr, [min |-> null, max |-> null])])

\* helper.js:546-570: a bound of a selected attribute is typed in
AttrRangeInput(attr, bound, val) ==
    /\ ~helper.isTriggerMode
    /\ has(helper.facets.selectedAttrs, attr)
    /\ LET ranges == helper.facets.selectedAttrRanges
           range == IF attr \in DOMAIN ranges THEN ranges[attr]
                    ELSE [min |-> null, max |-> null]
       IN Edited([helper.facets EXCEPT
                     !.selectedAttrRanges =
                         put(@, attr, IF bound = "min" THEN [range EXCEPT !.min = val]
                                      ELSE [range EXCEPT !.max = val])])

\* helper.js:425-453: a suggestion of the negative attribute search is picked
SelectNegAttr(attr) ==
    /\ ~helper.isTriggerMode
    /\ attr \in helper.negAttributes
    /\ ~has(helper.facets.selectedNegAttrs, attr)
    /\ Edited([helper.facets EXCEPT !.selectedNegAttrs = Append(@, attr)])

\* helper.js:848-855: a status box is clicked
StatusChange(status) ==
    /\ status \in helper.statuses
    /\ helper.initialized
    /\ helper.edits < MaxEdits
    /\ LET checked == status \notin helper.checkedStatuses
       IN helper' = rendered(
              [helper EXCEPT
                  !.checkedStatuses = IF checked THEN @ \cup {status} ELSE @ \ {status},
                  !.facets.selectedStatuses =
                      IF checked THEN Append(@, status)
                      ELSE SelectSeq(@, LAMBDA s : s # status),
                  !.edits = @ + 1])
    /\ UNCHANGED mainVars

\* helper.js:974-985: a bound of a trigger filter is typed in
TriggerInput(attr, bound, val) ==
    /\ helper.isTriggerMode
    /\ attr \in helper.triggerInputs
    /\ LET values == helper.facets.triggerFilterValues
           filter == IF attr \in DOMAIN values THEN values[attr]
                     ELSE [min |-> null, max |-> null]
       IN Edited([helper.facets EXCEPT
                     !.triggerFilterValues =
                         put(@, attr, IF bound = "min" THEN [filter EXCEPT !.min = val]
                                      ELSE [filter EXCEPT !.max = val])])

\* helper.js:869-878: a bound of the age in days is typed in
AgeInput(bound, val) ==
    /\ bound \in Bounds
    /\ Edited(IF bound = "min" THEN [helper.facets EXCEPT !.ageMinVal = val]
              ELSE [helper.facets EXCEPT !.ageMaxVal = val])

\* helper.js:887-896: a bound of the age in hours is typed in
AgeHoursInput(bound, val) ==
    /\ bound \in Bounds
    /\ Edited(IF bound = "min" THEN [helper.facets EXCEPT !.ageHoursMinVal = val]
              ELSE [helper.facets EXCEPT !.ageHoursMaxVal = val])

\* helper.js:505-508: an option of the sort select is picked
SortChange(sortVal) ==
    /\ sortVal # helper.facets.sortVal
    /\ Edited([helper.facets EXCEPT !.sortVal = sortVal])

\* the names an attribute, negative attribute or trigger input can carry
AttrNames ==
    UNION {named(Offers[k].attributes) : k \in 1..Len(Offers)}
NegNames ==
    UNION {named(initNegAttributes(Offers[k].stats)) \cup
           named(appendNegAttributes(Offers[k].stats)) : k \in 1..Len(Offers)}
Statuses == named([k \in 1..Len(Offers) |-> Offers[k].sellerStatus])

\* One helper page, fed by its tab and used by the operator; no search runs.
ModuleTypes == {"ancestor", "trigger"}

InitHelper ==
    /\ InitMain
    /\ scope \in [site : OverlapSites, filters : {NamedFilters}, maxWindows : {MaxWindows},
                  lags : {Lags}]
    /\ startsLeft = 0
    /\ helper \in {Loaded(type) : type \in ModuleTypes}

NextHelper ==
    \/ \E data \in Batches : InitializeUI(data)
    \/ \E newData \in Batches : AppendModules(newData)
    \/ \E bound \in Bounds, val \in MrInputs : MrInput(bound, val)
    \/ \E bound \in Bounds, val \in RerollInputs : RerollInput(bound, val)
    \/ \E attr \in AttrNames : SelectAttr(attr)
    \/ \E attr \in AttrNames, bound \in Bounds, val \in RangeInputs :
          AttrRangeInput(attr, bound, val)
    \/ \E attr \in NegNames : SelectNegAttr(attr)
    \/ \E status \in Statuses : StatusChange(status)
    \/ \E attr \in AttrNames, bound \in Bounds, val \in TriggerInputs :
          TriggerInput(attr, bound, val)

SpecHelper == InitHelper /\ [][NextHelper]_vars

----------------------------------------------------------------------------
\* The profile controls of one helper page.

\* uses of the profile controls on one page
MaxClicks == 3

\* a facet state saved earlier: a lowest rank of 5, sorted by falling price
SavedState == [getState(Loaded("ancestor")) EXCEPT !.mrMin = 5, !.sort = "priceDesc"]

\* what localStorage holds when the page loads: nothing, or an Ancestor profile
\* P of an earlier session, the default one or not
Stores ==
    { NoStorage,
      [NoStorage EXCEPT !.ancestor.profiles = (<<"P">> :> SavedState)],
      [NoStorage EXCEPT !.ancestor = [profiles |-> (<<"P">> :> SavedState),
                                       default |-> <<"P">>]] }

\* the answers to the prompts for a profile name (none when it is cancelled)
NameInputs == { <<>>, <<"P">>, <<" ", "Q", " ">>, <<"v", "a", "l", "u", "e", "O", "f">> }

\* the data sets the page is fed
ProfileBatches == { <<Offers[1]>>, <<Offers[5]>> }

\* the status box the operator clicks
ProfileStatuses == {Offers[1].sellerStatus}

\* a profile control is used
Clicked(h) ==
    /\ helper.wired
    /\ helper.clicks < MaxClicks
    /\ helper' = [h EXCEPT !.clicks = @ + 1]
    /\ UNCHANGED mainVars

\* profileManager.initUI() is called
InitUI ==
    /\ ~helper.wired
    /\ helper' = initUI(helper)
    /\ UNCHANGED mainVars

\* helper.js:2026-2031: the interval finds window.__updateResults and wraps it
HookInterval ==
    /\ helper.hookPending
    /\ helper.initialized
    /\ helper' = [helper EXCEPT !.hooked = TRUE, !.hookPending = FALSE]
    /\ UNCHANGED mainVars

\* another option of the profile select is picked
SelectChange(name) ==
    /\ name \in helper.select.options \cup {<<>>}
    /\ name # helper.select.value
    /\ Clicked(selectChange(helper, name))

SaveClick(name, ok) ==
    /\ helper.select.value = <<>> \/ name = <<>>
    /\ Clicked(saveClick(helper, name, ok))

RenameClick(newName) ==
    /\ helper.select.value # <<>>
    /\ Clicked(renameClick(helper, newName))

DeleteClick(ok) ==
    /\ helper.select.value # <<>>
    /\ Clicked(deleteClick(helper, ok))

SetDefaultClick ==
    /\ helper.select.value # <<>>
    /\ Clicked(setDefaultClick(helper))

InitProfiles ==
    /\ InitMain
    /\ scope \in [site : OverlapSites, filters : {NamedFilters}, maxWindows : {MaxWindows},
                  lags : {Lags}]
    /\ startsLeft = 0
    /\ helper \in {[Loaded("ancestor") EXCEPT !.storage = store, !.saveDisabled = disabled] :
                      store \in Stores, disabled \in BOOLEAN}

NextProfiles ==
    \/ \E data \in ProfileBatches : InitializeUI(data)
    \/ \E newData \in ProfileBatches : AppendModules(newData)
    \/ \E val \in MrInputs : MrInput("min", val)
    \/ \E status \in ProfileStatuses : StatusChange(status)
    \/ InitUI
    \/ HookInterval
    \/ \E name \in NameInputs : SelectChange(trim(name))
    \/ \E name \in NameInputs, ok \in BOOLEAN : SaveClick(name, ok)
    \/ \E newName \in NameInputs : RenameClick(newName)
    \/ \E ok \in BOOLEAN : DeleteClick(ok)
    \/ SetDefaultClick

SpecProfiles == InitProfiles /\ [][NextProfiles]_vars

----------------------------------------------------------------------------
\* The view of one Ancestor page under the age, reroll and sort controls.

\* a listing with a mixed-case name, no reroll text and a date the page cannot read
Undated ==
    [Offers[2] EXCEPT !.name = <<"a", "B">>, !.rerollCount = <<>>,
                      !.regDate = <<"n", "o", "w">>]

\* the data sets the page is fed: listings that are 2 days, 12 hours and
\* 3 days old, two of them alike in name and price, and listings without a date
ViewBatches ==
    { <<Offers[1], Offers[2], Offers[4]>>, <<Offers[2], Undated>>,
      <<Undated, Offers[1]>>, <<Offers[3], Offers[4]>> }

\* the bounds the operator types into the age inputs, in days and in hours
AgeInputs == {1 * Scale, 2 * Scale}
AgeHoursInputs == {12 * Scale, 48 * Scale}

\* the options of the sort select
SortOptions == {"priceAsc", "priceDesc", "nameAsc", "nameDesc"}

InitView ==
    /\ InitMain
    /\ scope \in [site : OverlapSites, filters : {NamedFilters}, maxWindows : {MaxWindows},
                  lags : {Lags}]
    /\ startsLeft = 0
    /\ helper = Loaded("ancestor")

NextView ==
    \/ \E data \in ViewBatches : InitializeUI(data)
    \/ \E newData \in ViewBatches : AppendModules(newData)
    \/ \E bound \in Bounds, val \in RerollInputs : RerollInput(bound, val)
    \/ \E bound \in Bounds, val \in AgeInputs : AgeInput(bound, val)
    \/ \E bound \in Bounds, val \in AgeHoursInputs : AgeHoursInput(bound, val)
    \/ \E sortVal \in SortOptions : SortChange(sortVal)

SpecView == InitView /\ [][NextView]_vars

----------------------------------------------------------------------------
\* Properties.

Range(seq) == {seq[k] : k \in 1..Len(seq)}
Polling == {"parse", "scroll", "wait"}

\* the modules that the first n parse passes of a page return, in parse order
RECURSIVE ParsedBy(_, _)
ParsedBy(page, n) ==
    IF n = 0 THEN <<>>
    ELSE ParsedBy(page, n - 1) \o parseScript([page |-> page, served |-> n - 1]).modules

\* the positions of `all` whose key occurs at no earlier position
FirstSeenAt(all) ==
    {k \in 1..Len(all) : \A j \in 1..(k - 1) : Key(all[j]) # Key(all[k])}

\* a list is the first-seen record of every key of `all`, in parse order
IsFirstSeenOf(list, all) ==
    LET at == FirstSeenAt(all)
        Nth(n) == CHOOSE k \in at : Cardinality({j \in at : j <= k}) = n
    IN /\ Len(list) = Cardinality(at)
       /\ \A n \in 1..Len(list) : list[n] = all[Nth(n)]

\* C1: within one run the collected list holds at most one record per key
\* name|price|sellerName, and it is exactly the first-seen record of every key
\* parsed so far, in parse order: a later record with a known key is dropped
\* even when its other fields differ, and parsing a record again stores nothing.
C1_DedupFirstSeen ==
    \A t \in DOMAIN tasks :
        LET task == tasks[t]
            w == windows[task.win]
            all == ParsedBy(w.page, w.served)
        IN /\ task.pc \in Polling =>
                /\ \A a, b \in 1..Len(task.deduped) :
                       a # b => Key(task.deduped[a]) # Key(task.deduped[b])
                /\ task.seen = {Key(m) : m \in Range(task.deduped)}
                /\ IsFirstSeenOf(task.deduped, all)
           /\ task.exit \in {"stable", "cap", "parse-error"} =>
                IsFirstSeenOf(searches[task.id].data, all)

\* C1 witness: a record was parsed whose key is stored with another seller status
C1_Witness ==
    \E t \in DOMAIN tasks :
        LET task == tasks[t]
            w == windows[task.win]
        IN /\ task.pc \in Polling
           /\ \E m \in Range(ParsedBy(w.page, w.served)), d \in Range(task.deduped) :
                 Key(m) = Key(d) /\ m.sellerStatus # d.sellerStatus

\* the result of the n-th parse pass on a page
PassOf(page, n) == parseScript([page |-> page, served |-> n - 1])

\* the first Len(counts) passes on the page find these numbers of items
Counts(page, counts) == \A n \in 1..Len(counts) : PassOf(page, n).itemCount = counts[n]

\* the loader is hidden at the passes from..to
HiddenIn(page, from, to) == \A n \in from..to : ~PassOf(page, n).loaderVisible

\* the finished search-updated events among a turn's events
Finals(events, id) ==
    {e \in Range(events) : e.type = "search-updated" /\ e.searchId = id /\ e.finished}

\* C2: on a page whose first four parse passes find 5, 5, 5, 5 items with the
\* loader hidden from the second pass on, the loop ends by stability exactly
\* after the fourth pass: no fifth pass is made, and before the fourth pass the
\* run can only end by an exception.
C2_StableAfterFourth ==
    \A t \in DOMAIN tasks :
        LET task == tasks[t]
            w == windows[task.win]
        IN (~w.destroyed /\ Counts(w.page, <<5, 5, 5, 5>>) /\ HiddenIn(w.page, 2, 4)) =>
              /\ w.served <= 4
              /\ task.exit = "stable" => w.served = 4
              /\ w.served = 4 => task.pc = "done" /\ task.exit = "stable"
              /\ (task.pc = "done" /\ w.served < 4) => task.exit \in {"parse-error", "error"}

\* C2 witness: such a run has ended by stability with its fourth pass
C2_Witness ==
    \E t \in DOMAIN tasks :
        LET task == tasks[t]
            w == windows[task.win]
        IN /\ Counts(w.page, <<5, 5, 5, 5>>) /\ HiddenIn(w.page, 2, 4)
           /\ task.exit = "stable" /\ w.served = 4
           /\ Finals(emitted, task.id) # {}

\* the scenario page: 4 items at the first pass, then the same 7 items with
\* the loader hidden
GrowsFourToSeven(page) ==
    /\ Counts(page, <<4, 7, 7, 7>>) /\ HiddenIn(page, 2, 4)
    /\ Cardinality({Key(m) : m \in Range(ParsedBy(page, 4))}) = 7

\* C3 as stated: with counts 4, 7, 7 the stability counter is 2 after the
\* third pass and the run ends by stability with the fourth pass.
C3_Original ==
    \A t \in DOMAIN tasks :
        LET task == tasks[t]
            w == windows[task.win]
        IN (~w.destroyed /\ GrowsFourToSeven(w.page)) =>
              /\ (w.served = 3 /\ task.pc \in Polling) => task.stable = 2
              /\ task.exit = "stable" => w.served = 4

\* C3: with counts 4, 7, 7, 7, 7 (loader hidden from the second pass on) the
\* stability counter is 1 after the third pass and 2 after the fourth; the run
\* ends by stability with the fifth pass and not before; the search then
\* stores the 7 deduplicated records and the final snapshot holds those of
\* them that match the name filter, all 7 when no module name was given.
C3_StableAfterFifth ==
    \A t \in DOMAIN tasks :
        LET task == tasks[t]
            w == windows[task.win]
            entry == searches[task.id]
        IN (~w.destroyed /\ GrowsFourToSeven(w.page)
              /\ Counts(w.page, <<4, 7, 7, 7, 7>>) /\ HiddenIn(w.page, 2, 5)) =>
              /\ (w.served = 3 /\ task.pc \in Polling) => task.stable = 1
              /\ (w.served = 4 /\ task.pc \in Polling) => task.stable = 2
              /\ w.served <= 5
              /\ task.exit = "stable" => w.served = 5
              /\ w.served = 5 =>
                    /\ task.pc = "done" /\ task.exit = "stable"
                    /\ Len(entry.data) = 7
                    /\ Range(entry.data) = Range(ParsedBy(w.page, 4))
                    /\ Len(emitted) = 2
                    /\ emitted[2] = Updated(task.id, nameFilter(entry.data, task.filters),
                                            TRUE, NoError)
                    /\ task.filters.moduleName = <<>> => emitted[2].data = entry.data

\* C3 witness: the scenario has ended with a final snapshot of 7 records
C3_Witness ==
    \E t \in DOMAIN tasks :
        LET task == tasks[t]
            w == windows[task.win]
        IN /\ GrowsFourToSeven(w.page)
           /\ task.exit = "stable" /\ w.served = 5
           /\ \E e \in Finals(emitted, task.id) : Len(e.data) = 7

\* nothing collected before a pass and nothing returned by it
NothingCollected(t) ==
    tasks[t].deduped = <<>> /\ parseScript(windows[tasks[t].win]).modules = <<>>

\* the timeout snapshot of a search
TimeoutSnapshot(id) == Updated(id, <<>>, TRUE, "timeout")

Exits == {"stable", "timeout", "parse-error", "error", "cap"}

\* C5: a run makes at most 60 parse passes; a task that has left runSearch
\* left it by stability, zero-result timeout, an exception or the 60-pass cap,
\* and its search is then not running; and when every awaited injection, load
\* and timer settles, every started search reaches that state.
C5_Terminates ==
    /\ [](\A t \in DOMAIN tasks :
            /\ windows[tasks[t].win].served <= 60
            /\ tasks[t].i < 60
            /\ tasks[t].pc = "done" =>
                  tasks[t].exit \in Exits /\ ~searches[tasks[t].id].running)
    /\ (searches # <<>>) ~>
          (/\ loads = {}
           /\ \A t \in DOMAIN tasks : tasks[t].pc = "done"
           /\ \A id \in DOMAIN searches : ~searches[id].running)

\* C5 witness: a run has ended at the cap, after 60 parse passes
C5_Witness ==
    \E t \in DOMAIN tasks :
        /\ tasks[t].exit = "cap"
        /\ windows[tasks[t].win].served = 60
        /\ ~searches[tasks[t].id].running

\* C6 as stated: a run that ended by a parse failure, the zero-result
\* timeout or another exception has sent a finished snapshot whose error field
\* is not empty.
C6_Original ==
    \A t \in DOMAIN tasks :
        tasks[t].exit \in {"parse-error", "timeout", "error"} =>
            \E e \in Finals(emitted, tasks[t].id) : e.error # NoError

\* C7: when the parse injection or the scroll injection throws, the task
\* leaves runSearch in that turn with no further pass on the page, the search
\* is marked not running, and every record the search had stored, and every
\* collected record that matches the name filter, is still stored afterwards;
\* a task that has left makes no further pass.
C7_AbortKeepsRecords ==
    [][\A t \in DOMAIN tasks :
          LET task == tasks[t]
              id == task.id
          IN /\ (ParseThrew(t) \/ ScrollThrew(t)) =>
                   /\ tasks'[t].pc = "done"
                   /\ tasks'[t].exit \in {"parse-error", "error"}
                   /\ windows' = windows
                   /\ ~searches'[id].running
                   /\ Range(searches[id].data) \subseteq Range(searches'[id].data)
                   /\ Range(nameFilter(task.deduped, task.filters))
                         \subseteq Range(searches'[id].data)
             /\ task.pc = "done" =>
                   /\ tasks'[t] = task
                   /\ windows'[task.win].served = windows[task.win].served]_vars

\* C7 witness: a run was aborted by an exception after records were stored
C7_Witness ==
    \E t \in DOMAIN tasks :
        /\ tasks[t].exit \in {"parse-error", "error"}
        /\ windows[tasks[t].win].served >= 1
        /\ searches[tasks[t].id].data # <<>>

\* C8 as stated: whatever happens in a setup step, the task goes on; it never
\* leaves runSearch from a setup step or a settle delay.
C8_Original ==
    [][\A t \in DOMAIN tasks :
          tasks[t].pc \in (SetupSteps \cup SettlePoints) => tasks'[t].pc # "done"]_vars

\* C8: a setup injection that returns, whether or not the page has the widget
\* it acts on, is followed by its settle delay and the next step, so a task
\* that polls has run all three setup steps and those with a widget took
\* effect; a setup injection that throws ends the run through the outer catch:
\* the search is marked not running and a finished snapshot with a non-empty
\* error and no data is sent.
C8_SetupSoftFailures ==
    /\ [](\A t \in DOMAIN tasks :
            LET w == windows[tasks[t].win]
            IN (tasks[t].pc \in Polling /\ ~w.destroyed) => w.applied = SetupSteps \ w.gaps)
    /\ [][\A t \in DOMAIN tasks :
            LET task == tasks[t]
                id == task.id
            IN /\ SetupInjected(t) =>
                     tasks'[t].pc = AfterInject[task.pc] /\ searches' = searches
               /\ SetupThrew(t) =>
                     /\ tasks'[t].pc = "done" /\ tasks'[t].exit = "error"
                     /\ ~searches'[id].running
                     /\ Len(emitted') = 1
                     /\ emitted'[1] \in Finals(emitted', id)
                     /\ emitted'[1].error # NoError /\ emitted'[1].data = <<>>
               /\ (task.pc \in SettlePoints /\ tasks'[t] # task) =>
                     tasks'[t].pc = AfterSettle[task.pc]]_vars

\* C8 witness: a task polls a page that lacks a setup widget
C8_Witness ==
    \E t \in DOMAIN tasks :
        LET w == windows[tasks[t].win]
        IN /\ tasks[t].pc = "parse"
           /\ w.gaps # {}
           /\ w.applied = SetupSteps \ w.gaps

\* C9 as stated: once stop-search was processed for a search (and no
\* retry-search was invoked after it), the window of the search is destroyed
\* and no task of the search has a parse pass or a scroll in flight on a live
\* window.
C9_Original ==
    \A id \in stopped :
        /\ windows[searches[id].window].destroyed
        /\ \A t \in DOMAIN tasks :
              tasks[t].id = id =>
                 ~(tasks[t].pc \in {"parse", "scroll"} /\ ~windows[tasks[t].win].destroyed)

C11_RetryRestarts ==
    [][/\ \A id \in DOMAIN searches : searches'[id].filters = searches[id].filters
       /\ \A id \in CommandIds :
             RetrySearch(id) =>
                LET w == Len(windows) + 1
                IN /\ windows'[searches[id].window].destroyed
                   /\ Len(windows') = w
                   /\ ~windows'[w].destroyed /\ windows'[w].owner = id
                   /\ windows'[w].served = 0 /\ windows'[w].applied = {}
                   /\ loads' \ loads = {[kind |-> "retry", id |-> id, win |-> w]}
                   /\ searches' = searches /\ tasks' = tasks
       /\ \A l \in loads :
             RetryLoaded(l) =>
                LET n == Len(tasks) + 1
                IN /\ searches'[l.id].data = <<>>
                   /\ searches'[l.id].running
                   /\ searches'[l.id].window = l.win
                   /\ ~windows'[l.win].destroyed
                   /\ Len(tasks') = n
                   /\ tasks'[n].id = l.id /\ tasks'[n].win = l.win
                   /\ tasks'[n].pc = "selectModuleType"
                   /\ tasks'[n].seen = {} /\ tasks'[n].deduped = <<>>
                   /\ tasks'[n].i = 0 /\ tasks'[n].stable = 0 /\ tasks'[n].lastCount = 0
                   /\ tasks'[n].filters = searches[l.id].filters]_vars

\* C11 witness: a run that had ended with records was retried and the new run
\* is at its first setup step with nothing stored
C11_Witness ==
    \E t \in DOMAIN tasks, u \in DOMAIN tasks :
        /\ t < u /\ tasks[t].id = tasks[u].id
        /\ tasks[t].exit = "stable" /\ scope.site.page = "drift"
        /\ tasks[u].pc = "selectModuleType"
        /\ searches[tasks[u].id].data = <<>>
        /\ searches[tasks[u].id].window = tasks[u].win
        /\ windows[tasks[t].win].destroyed

\* a runSearch activation that can still act on a page: not left, window alive
Active(t) == tasks[t].pc # "done" /\ ~windows[tasks[t].win].destroyed

\* C12 as stated: no two activations of runSearch for the same search are
\* in progress on live windows at the same time.
C12_Original ==
    \A t, u \in DOMAIN tasks :
        (t # u /\ tasks[t].id = tasks[u].id) => ~(Active(t) /\ Active(u))

\* the live windows created for a search
LiveWindows(id) == {w \in DOMAIN windows : ~windows[w].destroyed /\ windows[w].owner = id}

\* C13 as stated: a search has at most one live window, and a live window
\* that is not being loaded by a retry-search is the one its entry records.
C13_Original ==
    \A id \in DOMAIN searches :
        /\ Cardinality(LiveWindows(id)) <= 1
        /\ \A w \in LiveWindows(id) :
              (\A l \in loads : l.win # w) => searches[id].window = w

\* the step is a turn of a handler or of a runSearch activation of search id
ActsFor(id) ==
    \/ StopSearch(id)
    \/ RetrySearch(id)
    \/ \E l \in loads :
          /\ l.id = id
          /\ StartLoaded(l) \/ StartLoadFailed(l) \/ RetryLoaded(l) \/ RetryLoadFailed(l)
    \/ \E t \in DOMAIN tasks :
          /\ tasks[t].id = id
          /\ \/ SetupInjected(t) \/ SetupThrew(t) \/ SettleElapsed(t)
             \/ ParseThrew(t) \/ ScrollReturned(t) \/ ScrollThrew(t)
             \/ \E lag \in scope.lags : ParseReturned(t, lag) \/ InterPollElapsed(t, lag)

\* C14: a turn taken for one search (stop, retry, a load settling, a step, a
\* timeout or an exception of its runSearch) leaves every other search's entry
\* (running flag, records, filters, window), windows and activations as they
\* were and sends only events that carry its own id; starting a new search
\* changes no existing entry.
C14_Isolation ==
    [][/\ \A id \in DOMAIN searches :
             ActsFor(id) =>
                /\ \A other \in DOMAIN searches \ {id} :
                      /\ searches'[other] = searches[other]
                      /\ \A w \in DOMAIN windows :
                            windows[w].owner = other => windows'[w] = windows[w]
                      /\ \A t \in DOMAIN tasks :
                            tasks[t].id = other => tasks'[t] = tasks[t]
                /\ \A k \in 1..Len(emitted') : emitted'[k].searchId = id
       /\ \A f \in scope.filters :
             StartSearch(f) =>
                /\ \A other \in DOMAIN searches : searches'[other] = searches[other]
                /\ SubSeq(windows', 1, Len(windows)) = windows]_vars

\* C14 witness: one search was just stopped while another, with records
\* stored, is running on its live window
C14_Witness ==
    \E id \in DOMAIN searches, other \in DOMAIN searches :
        /\ id # other
        /\ emitted = << Updated(id, searches[id].data, TRUE, NoError), Stopped(id) >>
        /\ ~searches[id].running
        /\ searches[other].running /\ searches[other].data # <<>>
        /\ ~windows[searches[other].window].destroyed
        /\ \E t \in DOMAIN tasks : tasks[t].id = other /\ tasks[t].pc \in Polling

\* the first-seen record of every key of `all`, in parse order
FirstSeenList(all) ==
    LET at == FirstSeenAt(all)
        Nth(n) == CHOOSE k \in at : Cardinality({j \in at : j <= k}) = n
    IN [n \in 1..Cardinality(at) |-> all[Nth(n)]]

\* the records of a list whose name contains the trimmed query, whatever the
\* case of the letters; all of them when the trimmed query is empty
Matching(list, query) ==
    LET q == toLowerCase(trim(query))
        Test(m) == q = <<>> \/ includes(toLowerCase(m.name), q)
    IN SelectSeq(list, Test)

----------------------------------------------------------------------------
\* The facet engine of the helper page.

\* bounds on rank and reroll count that shut out records of the catalog
OtherBounds == {null, 0, 13}

\* the facet state of the page with other bounds on rank and reroll count
otherRankBounds(mrMin, mrMax, rerollMin, rerollMax) ==
    [helper EXCEPT !.facets.mrMinVal = mrMin, !.facets.mrMaxVal = mrMax,
                   !.facets.rerollMinVal = rerollMin, !.facets.rerollMaxVal = rerollMax]

\* C16: in Trigger mode the bounds on rank and reroll count do not matter: a
\* facet state that differs from the one of the page in these bounds only shows
\* the same records.
C16_TriggerModeIgnoresRankAndReroll ==
    helper.isTriggerMode =>
        \A mrMin, mrMax, rerollMin, rerollMax \in OtherBounds :
            updateResults(otherRankBounds(mrMin, mrMax, rerollMin, rerollMax)) = helper.view

\* Trigger mode, with a rank bound set earlier in Ancestor mode that a shown
\* record does not meet
C16_Witness ==
    /\ helper.isTriggerMode
    /\ helper.facets.mrMinVal # null
    /\ \E k \in 1..Len(helper.view) :
           ~above(helper.modules[helper.view[k]].mrVal, helper.facets.mrMinVal)

\* the records the page would show with no attribute selected
shownWithoutAttrs == updateResults([helper EXCEPT !.facets.selectedAttrs = <<>>])

\* the range typed in for a selected attribute, no bound when none was
rangeOf(attr) ==
    IF attr \in DOMAIN helper.facets.selectedAttrRanges
    THEN helper.facets.selectedAttrRanges[attr]
    ELSE [min |-> null, max |-> null]

\* C17: with attributes selected, a record is shown exactly when the other
\* facets pass it and, for every selected attribute, it has the attribute and
\* its value for it is either not parsed or within the bounds that are set,
\* both bounds inclusive.
C17_SelectedAttributeRange ==
    \A k \in 1..Len(helper.modules) :
        LET mod == helper.modules[k] IN
        has(helper.view, k) <=>
            /\ has(shownWithoutAttrs, k)
            /\ \A a \in 1..Len(helper.facets.selectedAttrs) :
                   LET attr == helper.facets.selectedAttrs[a]
                       val == get(mod.attrValues, attr)
                   IN /\ \E n \in 1..Len(mod.attributes) : mod.attributes[n] = attr
                      /\ \/ val = null
                         \/ /\ rangeOf(attr).min = null \/ rangeOf(attr).min <= val
                            /\ rangeOf(attr).max = null \/ rangeOf(attr).max >= val

\* a lower bound is set for a selected attribute; a record whose value equals
\* the bound and one that has the attribute but no parsed value are both shown
C17_Witness ==
    \E a \in 1..Len(helper.facets.selectedAttrs) :
        LET attr == helper.facets.selectedAttrs[a] IN
        /\ rangeOf(attr).min # null
        /\ \E k \in 1..Len(helper.view) :
               get(helper.modules[helper.view[k]].attrValues, attr) = rangeOf(attr).min
        /\ \E k \in 1..Len(helper.view) :
               get(helper.modules[helper.view[k]].attrValues, attr) = null

\* the attribute range map worked out from the attrValues of a record list
rangesOver(modules) ==
    [attr \in UNION {DOMAIN modules[k].attrValues : k \in 1..Len(modules)} |->
        LET vals == {get(modules[k].attrValues, attr) : k \in 1..Len(modules)} \ {null}
        IN IF vals = {} THEN [min |-> null, max |-> null]
           ELSE [min |-> CHOOSE v \in vals : \A w \in vals : v <= w,
                 max |-> CHOOSE v \in vals : \A w \in vals : v >= w]]

\* C18: once the page holds a record set, the attribute range map, the
\* negative attribute names, the module names and the statuses it has
\* discovered are those of the records it holds now, none stale and none
\* missing.
C18_SchemaFollowsRecords ==
    helper.initialized =>
        /\ helper.attrRangeMap = rangesOver(helper.modules)
        /\ helper.negAttributes =
               UNION {named(helper.modules[k].negAttributes) : k \in 1..Len(helper.modules)}
        /\ helper.moduleNames =
               {helper.modules[k].name : k \in 1..Len(helper.modules)} \ {<<>>}
        /\ helper.statuses =
               {helper.modules[k].sellerStatus : k \in 1..Len(helper.modules)} \ {<<>>}

\* the page initialized once with the records in `fed`, then brought to the
\* facet state of the page
initializedOnce ==
    rendered([initializeUI(Loaded(helper.moduleType), helper.fed) EXCEPT
                 !.facets = helper.facets])

\* the records a page shows, in the order of the cards
shown(h) == [k \in 1..Len(h.view) |-> Key(h.modules[h.view[k]])]

\* the derived fields of the records a page holds
derived(h) ==
    [k \in 1..Len(h.modules) |->
        LET mod == h.modules[k] IN
        [key |-> Key(mod), attrValues |-> mod.attrValues,
         negAttributes |-> named(mod.negAttributes),
         mrVal |-> mod.mrVal, rerollVal |-> mod.rerollVal,
         ageDays |-> mod.ageDays, ageHours |-> mod.ageHours,
         triggerValues |-> mod.triggerValues]]

allTrigger ==
    \A k \in 1..Len(helper.modules) :
        includes(toLowerCase(helper.modules[k].category), <<"t", "r", "i", "g", "g", "e", "r">>)

\* C20: on a page whose caller does not force Trigger mode and that holds
\* records, the mode is Trigger exactly when every record it holds has a
\* category containing 'trigger', whatever the case of the letters, and
\* Ancestor otherwise.
C20_ModeFollowsRecords ==
    (helper.initialized /\ helper.moduleType # "trigger" /\ helper.modules # <<>>) =>
        (helper.isTriggerMode <=> allTrigger)

----------------------------------------------------------------------------
\* The profile store of the helper page.

\* the live facet state differs from the state of the selected profile or, with
\* no profile selected, from the state in which no facet is set
dirty ==
    IF helper.select.value # <<>>
    THEN getState(helper) # helper.pm.currentProfileState
    ELSE hasAnyFilterSet(helper)

\* C21: once the profile controls are set up, the save button is enabled
\* exactly when the live facet state differs from the saved state of the
\* selected profile or, with no profile selected, from the neutral state.
C21_SaveEnabledIffDirty == helper.wired => (~helper.saveDisabled <=> dirty)

\* a step in which the save button stores a profile
Saves ==
    /\ helper'.storage # helper.storage
    /\ \E name \in NameInputs, ok \in BOOLEAN : SaveClick(name, ok)

\* a step in which an input of the operator changes a facet field while a
\* profile is selected and the save button is disabled
Mutates ==
    /\ helper.wired /\ helper.select.value # <<>> /\ helper.saveDisabled
    /\ helper'.edits # helper.edits
    /\ getState(helper') # getState(helper)

\* a step that loads a profile of the collection from the select
Reloads ==
    /\ helper.wired
    /\ helper'.select.value # helper.select.value
    /\ helper'.select.value \in DOMAIN loadProfiles(helper)

SavedThenDisabled == [][Saves => helper'.saveDisabled]_vars
MutatedThenEnabled == [][Mutates => ~helper'.saveDisabled]_vars
ReloadedThenDisabled == [][Reloads => helper'.saveDisabled]_vars

\* C22: saving a profile leaves the save button disabled, changing a facet
\* field then enables it, and loading the profile again disables it.
C22_DirtyTransitions ==
    [][/\ Saves => helper'.saveDisabled
       /\ Mutates => ~helper'.saveDisabled
       /\ Reloads => helper'.saveDisabled]_vars

\* the mode whose collection the handlers do not use now
otherKeys == IF helper.isTriggerMode THEN "ancestor" ELSE "trigger"

\* the collection `after` is `before` but for the entries of the names in `but`
sameBut(before, after, but) ==
    \A name \in (DOMAIN before \cup DOMAIN after) \ but :
        name \in DOMAIN before /\ name \in DOMAIN after /\ after[name] = before[name]

\* C23: a click on save with no profile selected and a name the collection of
\* the mode already holds changes neither the stored collections and default
\* names nor the selected profile; a confirmed click with a profile selected
\* stores the live state under that name and leaves every other profile, the
\* default name and the collection of the other mode as they were.
C23_SaveProfile ==
    [][\A name \in NameInputs, ok \in BOOLEAN :
          SaveClick(name, ok) =>
              LET keys == getStorageKeys(helper)
                  selected == helper.select.value
                  profs == helper.storage[keys].profiles
                  after == helper'.storage[keys].profiles
              IN /\ helper'.storage[otherKeys] = helper.storage[otherKeys]
                 /\ helper'.storage[keys].default = helper.storage[keys].default
                 /\ (selected = <<>> /\ trim(name) \in DOMAIN profs) =>
                        /\ helper'.storage = helper.storage
                        /\ helper'.select = helper.select
                        /\ helper'.pm = helper.pm
                 /\ (selected # <<>> /\ ok) =>
                        /\ selected \in DOMAIN after
                        /\ after[selected] = getState(helper)
                        /\ sameBut(profs, after, {selected})]_vars

\* a create under a name the collection holds has just been turned down
C23_Witness == 
    /\ helper.done.op = "rejected"
    /\ helper.select.value = <<>>
    /\ helper.done.name \in DOMAIN loadProfiles(helper)

\* C24: a rename of the selected profile to a name the collection does not
\* hold moves its saved state to the new name, leaves every other profile as it
\* was and, when the old name was the default name, makes the new name the
\* default; a rename to a name the collection holds changes nothing.
C24_RenameMovesKey ==
    [][\A newName \in NameInputs :
          RenameClick(newName) =>
              LET keys == getStorageKeys(helper)
                  old == helper.select.value
                  new == trim(newName)
                  profs == helper.storage[keys].profiles
                  after == helper'.storage[keys].profiles
              IN IF new \in DOMAIN profs
                 THEN /\ helper'.storage = helper.storage
                      /\ helper'.select = helper.select
                      /\ helper'.pm = helper.pm
                 ELSE (new # <<>> /\ old \in DOMAIN profs) =>
                      /\ old \notin DOMAIN after
                      /\ new \in DOMAIN after
                      /\ after[new] = profs[old]
                      /\ sameBut(profs, after, {old, new})
                      /\ helper'.storage[keys].default =
                             IF helper.storage[keys].default = old THEN new
                             ELSE helper.storage[keys].default
                      /\ helper'.storage[otherKeys] = helper.storage[otherKeys]]_vars

\* C25: a confirmed delete of the selected profile removes its entry, leaves
\* every other profile as it was, clears the default name exactly when it was
\* the name of the deleted profile, and leaves no profile selected.
C25_DeleteProfile ==
    [][(DeleteClick(TRUE)) =>
          LET keys == getStorageKeys(helper)
              name == helper.select.value
              profs == helper.storage[keys].profiles
              after == helper'.storage[keys].profiles
          IN /\ name \notin DOMAIN after
             /\ sameBut(profs, after, {name})
             /\ helper'.storage[keys].default =
                    IF helper.storage[keys].default = name THEN <<>>
                    ELSE helper.storage[keys].default
             /\ helper'.storage[otherKeys] = helper.storage[otherKeys]
             /\ helper'.select.value = <<>>
             /\ helper'.pm.currentProfileName = <<>>]_vars

\* a profile has just been deleted, no default name is set and another
\* profile is left
C25_Witness ==
    /\ helper.done.op = "deleted"
    /\ loadDefaultProfileName(helper) = <<>>
    /\ loadProfiles(helper) # <<>>

\* initUI has made the stored default profile the selected profile and its
\* state the live state of the filter controls
LoadedDefault ==
    LET profiles == loadProfiles(helper)
        defaultName == loadDefaultProfileName(helper)
    IN /\ helper'.select.value = defaultName
       /\ helper'.pm = [currentProfileName |-> defaultName,
                        currentProfileState |-> profiles[defaultName]]
       /\ getState(helper') = profiles[defaultName]

\* initUI has left no profile selected and the filter controls as they were
LoadedNone ==
    /\ helper'.select.value = <<>>
    /\ helper'.pm = NoProfile
    /\ getState(helper') = getState(helper)

\* the stored default name of the current mode names a stored profile
defaultExists ==
    /\ loadDefaultProfileName(helper) # <<>>
    /\ loadDefaultProfileName(helper) \in DOMAIN loadProfiles(helper)

\* what initUI loads, the listeners of the profile controls left aside
LoadsDefaultOrNone ==
    [][InitUI => IF defaultExists THEN LoadedDefault ELSE LoadedNone]_vars

\* C26: when initUI finds a default name whose profile exists, that profile
\* is selected, its state is the live state of the filter controls and the
\* profile controls work afterwards; otherwise no profile is selected and the
\* filter controls are left alone, and the profile controls work as well.
C26_ProfileLoad ==
    [][InitUI => /\ IF defaultExists THEN LoadedDefault ELSE LoadedNone
                 /\ helper'.wired]_vars

----------------------------------------------------------------------------
\* The view of the helper page under the age, reroll and sort controls.

\* the record at position k of the page is among the cards
inView(k) == \E i \in 1..Len(helper.view) : helper.view[i] = k

\* a range of the facet state is active when one of its bounds is set
active(min, max) == min # null \/ max # null

\* a value lies in a range; a record without the value lies in none
within(value, min, max) ==
    /\ value # null
    /\ min # null => value >= min
    /\ max # null => value <= max

\* the age of the record at position k lies in the range of days, of hours
inDayRange(k) ==
    LET f == helper.facets
    IN within(helper.modules[k].ageDays, inDays(f.ageMinVal), inDays(f.ageMaxVal))
inHourRange(k) ==
    LET f == helper.facets
    IN within(helper.modules[k].ageHours, f.ageHoursMinVal, f.ageHoursMaxVal)
inRerollRange(k) ==
    LET f == helper.facets
    IN within(helper.modules[k].rerollVal, f.rerollMinVal, f.rerollMaxVal)

\* C27: a record is among the cards exactly when it passes every active
\* predicate (on this page the reroll range, the age range in days and the age
\* range in hours can be active); with both age ranges active a card lies in
\* both, and with nothing active every record is among the cards.
C27_PredicateConjunction ==
    LET f == helper.facets
        days == active(f.ageMinVal, f.ageMaxVal)
        hours == active(f.ageHoursMinVal, f.ageHoursMaxVal)
        rerolls == active(f.rerollMinVal, f.rerollMaxVal)
    IN helper.initialized =>
       /\ \A k \in 1..Len(helper.modules) :
              inView(k) <=> /\ days => inDayRange(k)
                            /\ hours => inHourRange(k)
                            /\ rerolls => inRerollRange(k)
       /\ (days /\ hours) =>
              \A k \in 1..Len(helper.modules) :
                  inView(k) => inDayRange(k) /\ inHourRange(k)
       /\ ~(days \/ hours \/ rerolls) => Len(helper.view) = Len(helper.modules)

\* both age ranges are set: one record is among the cards, one that lies in
\* the range of days only and one that lies in the range of hours only are not
C27_Witness ==
    /\ helper.initialized
    /\ active(helper.facets.ageMinVal, helper.facets.ageMaxVal)
    /\ active(helper.facets.ageHoursMinVal, helper.facets.ageHoursMaxVal)
    /\ helper.view # <<>>
    /\ \E k \in 1..Len(helper.modules) : inDayRange(k) /\ ~inHourRange(k) /\ ~inView(k)
    /\ \E k \in 1..Len(helper.modules) : inHourRange(k) /\ ~inDayRange(k) /\ ~inView(k)

\* the sort key of record a against that of record b under an option of the
\* sort select: negative when a's key comes first, zero when the keys are equal
keyOrder(a, b, sortVal) ==
    CASE sortVal = "priceAsc" -> parsePrice(a) - parsePrice(b)
      [] sortVal = "priceDesc" -> parsePrice(b) - parsePrice(a)
      [] sortVal = "nameAsc" -> localeCompare(toLowerCase(a.name), toLowerCase(b.name))
      [] sortVal = "nameDesc" -> localeCompare(toLowerCase(b.name), toLowerCase(a.name))

\* C28: the cards are the records that pass the filter, each once, in the
\* order of the key of the selected sort option (price or lower-cased name,
\* rising or falling), and records with equal keys are in the order the page
\* holds them in.
C28_StableSort ==
    LET view == helper.view
        mod(i) == helper.modules[view[i]]
    IN (helper.initialized /\ helper.facets.sortVal \in SortOptions) =>
       /\ \A i, j \in 1..Len(view) : view[i] = view[j] => i = j
       /\ {view[i] : i \in 1..Len(view)} =
              {k \in 1..Len(helper.modules) : passes(helper, helper.modules[k])}
       /\ \A i, j \in 1..Len(view) :
              i < j =>
                  /\ keyOrder(mod(i), mod(j), helper.facets.sortVal) <= 0
                  /\ keyOrder(mod(i), mod(j), helper.facets.sortVal) = 0 => view[i] < view[j]

\* the cards are sorted by falling name: a record is placed before two records
\* the page holds ahead of it, and those two, equal in name, keep their order
C28_Witness ==
    /\ helper.initialized
    /\ helper.facets.sortVal = "nameDesc"
    /\ \E i, j, k \in 1..Len(helper.view) :
           /\ i < j /\ j < k
           /\ helper.view[i] > helper.view[j]
           /\ helper.view[j] < helper.view[k]
           /\ keyOrder(helper.modules[helper.view[j]], helper.modules[helper.view[k]],
                       "nameDesc") = 0

\* the derived reroll value of every record the page holds whose reroll text
\* is one of `texts` is 0
rerollZeroFor(texts) ==
    \A k \in 1..Len(helper.modules) :
        helper.modules[k].rerollCount \in texts => helper.modules[k].rerollVal = 0

\* a dash for a reroll text gives the value 0
DashIsZero == rerollZeroFor({<<"-">>})

\* C29: every record the page holds whose reroll text is a dash or empty has
\* the derived reroll value 0, whether initializeUI or appendModules took it in.
C29_BlankRerollIsZero == rerollZeroFor({<<"-">>, <<>>})

\* the dates of the listings the page is fed that state an age: the text, the
\* count it states and the unit
AgePhrases ==
    { [text |-> Offers[1].regDate, count |-> 2, unit |-> "day"],
      [text |-> Offers[4].regDate, count |-> 3, unit |-> "day"],
      [text |-> Offers[2].regDate, count |-> 12, unit |-> "hour"] }

\* the dates that state none
Unreadable == {Undated.regDate, Offers[3].regDate}

\* a bound of one of the two age ranges is set
ageBound ==
    \/ active(helper.facets.ageMinVal, helper.facets.ageMaxVal)
    \/ active(helper.facets.ageHoursMinVal, helper.facets.ageHoursMaxVal)

----------------------------------------------------------------------------
\* The record list of the helper page.

\* the operator changes a filter or the sort option and the cards are drawn anew
Evaluates ==
    \/ \E bound \in Bounds, val \in RerollInputs : RerollInput(bound, val)
    \/ \E bound \in Bounds, val \in AgeInputs : AgeInput(bound, val)
    \/ \E bound \in Bounds, val \in AgeHoursInputs : AgeHoursInput(bound, val)
    \/ \E sortVal \in SortOptions : SortChange(sortVal)

\* list `before` is the beginning of list `after`
isPrefix(before, after) ==
    /\ Len(before) <= Len(after)
    /\ SubSeq(after, 1, Len(before)) = before

\* C31: drawing the cards leaves the record list of the page as it was, and
\* appendModules only adds records at its end: the list before the append is
\* the beginning of the list after it.
C31_StoreOrderStable ==
    [][/\ Evaluates => helper'.modules = helper.modules
       /\ (\E newData \in ViewBatches : AppendModules(newData)) =>
              isPrefix(helper.modules, helper'.modules)]_vars

\* a record was appended behind two others and the cards are in another
\* order than the record list
C31_Witness ==
    /\ Len(helper.modules) = 3
    /\ helper.modules[1].name = Offers[2].name
    /\ helper.modules[3].name = Offers[1].name
    /\ Len(helper.view) = 3
    /\ helper.view[1] # 1

----------------------------------------------------------------------------
\* The runs of the extraction controller: counter, windows, events, flags.

\* C32: the stability counter of a run is 0 after its first parse pass,
\* whatever number of items that pass found, and no run ends by stability
\* before its fourth parse pass.
C32_StabilityBaseline ==
    \A t \in DOMAIN tasks :
        LET task == tasks[t]
            w == windows[task.win]
        IN /\ (task.pc \in {"scroll", "wait"} /\ task.i = 0) => task.stable = 0
           /\ task.exit = "stable" => w.served >= 4

\* the hidden window of every run that left runSearch by one of `exits` is closed
releasedAfter(exits) ==
    \A t \in DOMAIN tasks :
        tasks[t].exit \in exits => windows[tasks[t].win].destroyed

\* a run that timed out with no record has its window closed
TimeoutReleases == releasedAfter({"timeout"})

\* C33: once a run has ended, by stability, by the cap of passes, by the
\* zero-result timeout or by an error, the hidden window of its search is
\* closed.
C33_ReleasedAtTerminal == releasedAfter(Exits)

\* the search-updated events for a search among a turn's events
UpdatesFor(events, id) ==
    {e \in Range(events) : e.type = "search-updated" /\ e.searchId = id}

\* the activations of runSearch for a search, in creation order
RunsOf(id) == SelectSeq([t \in 1..Len(tasks) |-> t], LAMBDA t : tasks[t].id = id)

\* the search has had its terminal event and no retry-search was invoked
\* since: it was stopped, or its last run has ended and no load is pending
Ended(id) ==
    \/ id \in stopped
    \/ /\ \A l \in loads : l.id # id
       /\ RunsOf(id) # <<>>
       /\ tasks[RunsOf(id)[Len(RunsOf(id))]].pc = "done"

\* C34: once a search was stopped or its run has sent its finished snapshot,
\* no turn of the main process other than a command of the operator sends a
\* search-updated event for it until retry-search is invoked.
C34_SingleTerminalEvent ==
    [][\A id \in DOMAIN searches :
          (Ended(id) /\ ~StopSearch(id) /\ ~RetrySearch(id)) =>
              UpdatesFor(emitted', id) = {}]_vars

\* C35: while an activation of runSearch is in its setup steps or its poll
\* loop on a live window, the entry of its search is marked running; the end
\* of an earlier activation never marks the search of a later one not running.
C35_RunningFlag ==
    \A t \in DOMAIN tasks : Active(t) => searches[tasks[t].id].running

\* C36: when stop-search was processed after the last retry-search of a
\* search was invoked and no load of that search is pending any more, the
\* search is not running, no activation of runSearch works for it on a live
\* window, and every window created for it is closed.
C36_StopNotLost ==
    \A id \in stopped :
        (\A l \in loads : l.id # id) =>
            /\ ~searches[id].running
            /\ \A t \in DOMAIN tasks : tasks[t].id = id => ~Active(t)
            /\ LiveWindows(id) = {}

\* every record of the list matches the module name of the filters
allMatch(list, filters) == nameFilter(list, filters) = list

\* the snapshots of the runs themselves carry only matching records
RunSnapshotsMatch ==
    [][\A id \in DOMAIN searches :
          ~StopSearch(id) =>
              \A e \in UpdatesFor(emitted', id) : allMatch(e.data, searches[id].filters)]_vars

\* C37: every search-updated event of a search, the finished snapshot that
\* stop-search sends included, carries only records whose name matches the
\* module name the search was started with.
C37_SnapshotsMatchQuery ==
    \A id \in DOMAIN searches :
        \A e \in UpdatesFor(emitted, id) : allMatch(e.data, searches[id].filters)

\* the search-updated events for a search among a turn's events, in the
\* order they were sent
SnapshotsOf(events, id) ==
    SelectSeq(events, LAMBDA e : e.type = "search-updated" /\ e.searchId = id)

\* each list of the snapshots extends the list before it, the first one
\* extends `sent`
grows(sent, snapshots) ==
    \A k \in 1..Len(snapshots) :
        isPrefix(IF k = 1 THEN sent ELSE snapshots[k - 1].data, snapshots[k].data)

\* the snapshots a run sends without an error field extend the list of the
\* snapshot before them (entry.data holds that list while the run polls)
PlainSnapshotsGrow ==
    [][\A id \in DOMAIN searches :
          grows(searches[id].data,
                SelectSeq(SnapshotsOf(emitted', id), LAMBDA e : e.error = NoError))]_vars

\* C38: within one run the list of every snapshot, incremental or final,
\* begins with the list of the snapshot sent before it: records are only
\* appended between snapshots.
C38_SnapshotsGrow ==
    [][\A id \in DOMAIN searches :
          grows(searches[id].data, SnapshotsOf(emitted', id))]_vars

----------------------------------------------------------------------------
\* The default names of the two profile collections.

\* the default name stored for a mode is empty or names a profile of the
\* collection stored for that mode
defaultHeld(keys) ==
    \/ helper.storage[keys].default = <<>>
    \/ helper.storage[keys].default \in DOMAIN helper.storage[keys].profiles

\* C39: whatever profiles are saved, renamed, deleted and made the default,
\* and whatever mode the page is set to in between, the default name of each
\* mode is unset or names a profile of the collection of that same mode.
C39_DefaultIntegrity == defaultHeld("ancestor") /\ defaultHeld("trigger")

----------------------------------------------------------------------------
\* The tab of a search in the hub renderer (hub.js).  The status indicator
\* carries one of five status classes; every handler removes the other four
\* when it adds one.  The text of the status is a label, followed by the
\* number of records where the source writes one.

\* hub.js:131-218: the controls of a tab as createSearchTab builds them
createSearchTab ==
    [statusEl |-> "status-sending", statusText |-> << "Sending request" >>,
     stopBtnDisabled |-> FALSE, retryMsg |-> "", retryMsgShown |-> FALSE,
     retryBtnShown |-> FALSE]

\* hub.js:277-369: the listener of search-updated.  An error shows 'Failed'
\* and the retry controls and returns; an unfinished snapshot shows
\* 'In progress (count)'; a finished one shows 'Complete (count)' and
\* disables the Stop button.
onSearchUpdated(tab, e) ==
    IF e.error # NoError
    THEN [tab EXCEPT !.stopBtnDisabled = TRUE,
                     !.statusEl = "status-error",
                     !.statusText = << "Failed" >>,
                     !.retryMsg = IF e.error = "timeout"
                                  THEN "No items were found within 30 seconds."
                                  ELSE "An error occurred while fetching results.",
                     !.retryMsgShown = TRUE,
                     !.retryBtnShown = TRUE]
    ELSE IF ~e.finished
    THEN [tab EXCEPT !.retryMsgShown = FALSE, !.retryBtnShown = FALSE,
                     !.statusEl = "status-running",
                     !.statusText = << "In progress", Len(e.data) >>]
    ELSE [tab EXCEPT !.retryMsgShown = FALSE, !.retryBtnShown = FALSE,
                     !.stopBtnDisabled = TRUE,
                     !.statusEl = "status-finished",
                     !.statusText = << "Complete", Len(e.data) >>]

\* hub.js:376-405: the listener of search-progress
onSearchProgress(tab, e) ==
    [tab EXCEPT !.retryMsgShown = FALSE, !.retryBtnShown = FALSE,
                !.statusEl = "status-sending",
                !.statusText =
                    << CASE e.stage = "enterName" -> "Entering module name"
                         [] e.stage = "setPlatform" -> "Setting platform"
                         [] e.stage = "waiting" -> "Waiting for website"
                         [] OTHER -> "Working" >>]

\* hub.js:408-424: the listener of search-stopped
onSearchStopped(tab, e) ==
    [tab EXCEPT !.stopBtnDisabled = TRUE,
                !.statusEl = "status-stopped",
                !.statusText = << "Aborted" >>]

\* hub.js:278-280, 377-379, 409-411: the tab of search id after the hub has
\* handled the events in the order they were sent; an event of another search
\* leaves the tab alone
RECURSIVE handled(_, _, _)
handled(tab, events, id) ==
    IF events = <<>> THEN tab
    ELSE LET e == Head(events)
             next == IF e.searchId # id THEN tab
                     ELSE CASE e.type = "search-updated" -> onSearchUpdated(tab, e)
                            [] e.type = "search-progress" -> onSearchProgress(tab, e)
                            [] e.type = "search-stopped" -> onSearchStopped(tab, e)
         IN handled(next, Tail(events), id)

\* the tab shows 'Aborted' and its Stop button is disabled
showsAborted(tab) ==
    /\ tab.statusText = << "Aborted" >>
    /\ tab.statusEl = "status-stopped"
    /\ tab.stopBtnDisabled

\* the states a tab can be in when a turn of the main process sends events
TabStates ==
    { [createSearchTab EXCEPT !.statusEl = status[1], !.statusText = status[2],
                              !.stopBtnDisabled = disabled,
                              !.retryMsgShown = retry, !.retryBtnShown = retry] :
          status \in { << "status-sending", << "Sending request" >> >>,
                       << "status-sending", << "Waiting for website" >> >>,
                       << "status-running", << "In progress", 1 >> >>,
                       << "status-finished", << "Complete", 1 >> >>,
                       << "status-error", << "Failed" >> >>,
                       << "status-stopped", << "Aborted" >> >> },
          disabled \in BOOLEAN, retry \in BOOLEAN }

\* the events of stop-search leave the tab showing 'Aborted', whatever it
\* showed before
StopShowsAborted ==
    [][\A id \in DOMAIN searches : \A tab \in TabStates :
          StopSearch(id) => showsAborted(handled(tab, emitted', id))]_vars

\* C40: once the hub has handled the search-stopped event of a search, its
\* tab shows 'Aborted' with the Stop button disabled, and the events the main
\* process sends for that search afterwards leave that status as it is until
\* retry-search is invoked.
C40_AbortedStays ==
    [][\A id \in stopped : \A tab \in TabStates :
          (showsAborted(tab) /\ ~StopSearch(id) /\ ~RetrySearch(id)) =>
              showsAborted(handled(tab, emitted', id))]_vars

====
